---- MODULE Spec2Model ----
\* A model of the yobmef chess engine: the Board, its move application and its
\* FEN parser (src/chess.rs), the move notation (src/chess/movement.rs), the
\* evaluator's terminal detection (src/eval.rs), the alpha-beta search with
\* its transposition table (src/search.rs), the UCI parser (src/uci.rs) and
\* the knight and magic attack tables (src/movegen).
EXTENDS Integers, Sequences, FiniteSets, TLC

\* ---------------------------------------------------------------- options
\* Option<T>: None is the empty tuple, Some(x) the one-element tuple.
None == << >>
Some(x) == << x >>
\* The elements of a sequence
SetOf(seq) == {seq[i] : i \in 1 .. Len(seq)}

\* ------------------------------------------------------------ chess.rs types
\* enum Color
White == 0
Black == 1
Colors == {White, Black}

\* (mutant: the side to move is not switched)
other_mut(color) == color
\* Color::other
other(color) == IF color = White THEN Black ELSE White

\* enum Piece (the discriminant is the index into Board::pieces)
Pawn == 0
Knight == 1
Bishop == 2
Rook == 3
Queen == 4
King == 5
NUM_PIECES == 6
Pieces == 0 .. (NUM_PIECES - 1)

\* (mutant: a promotion to a king is accepted)
can_promote_to_mut(piece) == piece # Pawn
\* Piece::can_promote_to
can_promote_to(piece) == piece # Pawn /\ piece # King

\* struct Square(u8): rank * 8 + file
Squares == 0 .. 63
Square_new(r, f) == (r * 8) + f
rank(sq) == sq \div 8
file(sq) == sq % 8

\* Square::up / Square::down: None when the result leaves the board
up(sq, ranks) == IF rank(sq) + ranks > 7 THEN None
                 ELSE Some(Square_new(rank(sq) + ranks, file(sq)))
down(sq, ranks) == IF ranks > rank(sq) THEN None
                   ELSE Some(Square_new(rank(sq) - ranks, file(sq)))

\* BitBoard: a 64-bit set, here the set of the squares whose bit is set.
\* flip_mut toggles one bit; get reads one bit.
flip(bb, sq) == IF sq \in bb THEN bb \ {sq} ELSE bb \cup {sq}
get(bb, sq) == sq \in bb

\* u8 subtraction a - b. With overflow checks (a debug build) a negative result
\* aborts the process; without them (a release build) it wraps modulo 2^8.
U8Sub(a, b, checks) ==
    IF a >= b THEN [panic |-> FALSE, val |-> a - b]
    ELSE IF checks THEN [panic |-> TRUE, val |-> 0]
    ELSE [panic |-> FALSE, val |-> (a - b) % 256]

\* enum CastlingSide: the bit of the side in Board::castling
WhiteKingside == 0
WhiteQueenside == 1
BlackKingside == 2
BlackQueenside == 3
CastlingSides == {WhiteKingside, WhiteQueenside, BlackKingside, BlackQueenside}

\* Whether bit side_bit of the u8 castling is set
castling_bit(castling, side_bit) == (castling \div (2 ^ side_bit)) % 2 = 1

\* Board::set_castling_mut: castling |= 1 << side, or castling &= !(1 << side)
set_castling_mut(castling, side, can_castle) ==
    IF can_castle
    THEN IF castling_bit(castling, side) THEN castling ELSE castling + 2 ^ side
    ELSE IF castling_bit(castling, side) THEN castling - 2 ^ side ELSE castling

\* ------------------------------------------------------------ boards
MkBoard(pawns, knights, bishops, rooks, queens, kings, white, black, ep, stm, cas) ==
    [pieces |-> (Pawn :> pawns) @@ (Knight :> knights) @@ (Bishop :> bishops)
                @@ (Rook :> rooks) @@ (Queen :> queens) @@ (King :> kings),
     color_combined |-> (White :> white) @@ (Black :> black),
     en_passant |-> ep,
     side_to_move |-> stm,
     castling |-> cas]

RankSquares(r) == {Square_new(r, f) : f \in 0 .. 7}

\* Board::from_start_pos: the board of STARTING_FEN
\* "rnbqkbnr/pppppppp/8/8/8/8/PPPPPPPP/RNBQKBNR w KQkq - 0 1"
from_start_pos ==
    MkBoard(RankSquares(1) \cup RankSquares(6),
            {1, 6, 57, 62}, {2, 5, 58, 61}, {0, 7, 56, 63}, {3, 59}, {4, 60},
            RankSquares(0) \cup RankSquares(1),
            RankSquares(6) \cup RankSquares(7),
            None, White, 15)

\* The board of test_make_move_promote:
\* "1nbqkbnr/rP1ppppp/p1p5/8/8/8/1PPPPPPP/RNBQKBNR w KQk - 1 5"
promote_test_board ==
    MkBoard({9, 10, 11, 12, 13, 14, 15, 49, 51, 52, 53, 54, 55, 40, 42},
            {1, 6, 57, 62}, {2, 5, 58, 61}, {0, 7, 48, 63}, {3, 59}, {4, 60},
            RankSquares(0) \cup {9, 10, 11, 12, 13, 14, 15, 49},
            {57, 58, 59, 60, 61, 62, 63, 48, 51, 52, 53, 54, 55, 40, 42},
            None, White, 7)

\* struct Movement
Movement_new(from_square, to_square, promote) ==
    [from_square |-> from_square, to_square |-> to_square, promote |-> promote]

\* ------------------------------------------------------ Board::make_move_mut
\* self.pieces.iter().position(|b| b.get(sq)): the first piece kind whose
\* bitboard has sq set, None when there is none.
position(self, sq) ==
    LET hits == {p \in Pieces : get(self.pieces[p], sq)}
    IN IF hits = {} THEN None
       ELSE Some(CHOOSE p \in hits : \A q \in hits : p <= q)

\* The colour the code takes for the mover: White when the White bitboard has
\* the origin square set, Black otherwise.
mover_color(self, movement) ==
    IF get(self.color_combined[White], movement.from_square) THEN White ELSE Black

\* "Move to the destination or promote": the piece kind flipped at to_square
placed_piece(piece, movement) ==
    IF movement.promote # None THEN movement.promote[1] ELSE piece

\* The rank difference of the double-move test, in u8 arithmetic
rank_delta(color, movement, checks) ==
    IF color = White
    THEN U8Sub(rank(movement.to_square), rank(movement.from_square), checks)
    ELSE U8Sub(rank(movement.from_square), rank(movement.to_square), checks)

\* (mutant: the passing square taken on the wrong side of the destination)
passing_square_mut(color, movement) ==
    IF color = White THEN up(movement.to_square, 1) ELSE down(movement.to_square, 1)

\* "Store en passant passing square"
passing_square(color, movement) ==
    IF color = White THEN down(movement.to_square, 1) ELSE up(movement.to_square, 1)

new_en_passant(color, piece, movement, delta) ==
    IF piece = Pawn /\ delta = 2 THEN passing_square(color, movement) ELSE None

\* The bitboards after the three flips of the piece grid and the two of the
\* colour grid.
moved_pieces(self, piece, movement) ==
    LET placed == placed_piece(piece, movement)
        p1 == [self.pieces EXCEPT ![placed] = flip(@, movement.to_square)]
    IN [p1 EXCEPT ![piece] = flip(@, movement.from_square)]

moved_colors(self, color, movement) ==
    [self.color_combined EXCEPT
        ![color] = flip(flip(@, movement.from_square), movement.to_square)]

\* make_move_mut(&mut self, movement) -> Option<()>: the board afterwards and
\* the outcome: "None" (rejected), "Some" (applied) or "panic" (aborted).
make_move_mut(self, movement, checks) ==
    LET color == mover_color(self, movement)
        found == position(self, movement.from_square)
    IN IF get(self.color_combined[color], movement.to_square)
       THEN [board |-> self, ret |-> "None", piece |-> None, color |-> color]
       ELSE IF found = None
       THEN [board |-> self, ret |-> "None", piece |-> None, color |-> color]
       ELSE IF movement.promote # None /\ ~can_promote_to(movement.promote[1])
       THEN [board |-> self, ret |-> "None", piece |-> found, color |-> color]
       ELSE
         LET piece == found[1]
             flipped == [self EXCEPT
                           !.pieces = moved_pieces(self, piece, movement),
                           !.color_combined = moved_colors(self, color, movement)]
             delta == rank_delta(color, movement, checks)
         IN IF delta.panic
            THEN [board |-> flipped, ret |-> "panic", piece |-> found, color |-> color]
            ELSE [board |-> [flipped EXCEPT
                               !.en_passant =
                                   new_en_passant(color, piece, movement, delta.val),
                               !.side_to_move = other(self.side_to_move)],
                  ret |-> "Some", piece |-> found, color |-> color]

\* Board::make_move(&self, movement) -> Board: apply to a clone, drop the Option
make_move(self, movement, checks) == make_move_mut(self, movement, checks).board

\* ------------------------------------------------------------ the game searched
\* The search reaches the rules of chess only through get_legal_moves,
\* Board::make_move, Board::in_check and the static score. The positions it
\* searches are the nodes of a small game graph with those four as data.
Positions == {"R", "S", "A", "X", "T", "x1", "c1", "c2", "Z", "Y"}

\* The static score of a position s >= 0 is one unit of material a side plus s
\* for White; s < 0 is -s for Black.
ScoreOf(s) == [white |-> 1 + (IF s > 0 THEN s ELSE 0),
               black |-> 1 + (IF s < 0 THEN -s ELSE 0)]

\* One game of the family. White moves in R, X, T and Z, Black in the others.
\*   R -> S | A      S -> Z | T   A -> X | T     X -> x1     T -> c1 | c2
\*   x1 -> T or Z    c1 -> Z, or none (mate or stalemate)    c2 -> Z
\*   Z -> Y, or none (White is mated)                        Y -> Z
GameOf(x1_to, c1_kind, c2_score, X_score, Z_kind) ==
    LET statics == [p \in Positions |->
                      CASE p = "c1" -> 2
                        [] p = "c2" -> c2_score
                        [] p = "X" -> X_score
                        [] OTHER -> 0]
    IN [side_to_move |-> [p \in Positions |->
                            IF p \in {"R", "X", "T", "Z"} THEN White ELSE Black],
        moves |-> [p \in Positions |->
                     CASE p = "R" -> <<"S", "A">>
                       [] p = "S" -> <<"Z", "T">>
                       [] p = "A" -> <<"X", "T">>
                       [] p = "X" -> <<"x1">>
                       [] p = "T" -> <<"c1", "c2">>
                       [] p = "x1" -> <<x1_to>>
                       [] p = "c1" -> IF c1_kind = "moves" THEN <<"Z">> ELSE << >>
                       [] p = "c2" -> <<"Z">>
                       [] p = "Z" -> IF Z_kind = "moves" THEN <<"Y">> ELSE << >>
                       [] p = "Y" -> <<"Z">>],
        in_check |-> [p \in Positions |->
                        \/ p = "Y"
                        \/ p = "c1" /\ c1_kind = "mate"
                        \/ p = "Z" /\ Z_kind = "mate"],
        white_score |-> [p \in Positions |-> ScoreOf(statics[p]).white],
        black_score |-> [p \in Positions |-> ScoreOf(statics[p]).black]]

Games == {GameOf(x1_to, c1_kind, c2_score, X_score, Z_kind) :
            x1_to \in {"T", "Z"}, c1_kind \in {"mate", "stale", "moves"},
            c2_score \in {-1, 1}, X_score \in {0, 1}, Z_kind \in {"moves", "mate"}}

\* movegen::get_legal_moves: the legal moves of b in generation order
get_legal_moves(g, b) == [i \in 1 .. Len(g.moves[b]) |-> [from |-> b, to |-> g.moves[b][i]]]
\* Board::make_move on a position of the game
game_make_move(g, b, mv) == mv.to
\* Board::in_check
in_check(g, b) == g.in_check[b]

\* ------------------------------------------------------------ eval.rs
MATE == 10000

\* Color::polarize
polarize(color) == IF color = White THEN 1 ELSE -1

\* get_score_for_color: material plus piece-square bonuses of one colour
get_score_for_color(g, b, color) ==
    IF color = White THEN g.white_score[b] ELSE g.black_score[b]

\* get_score_ongoing
get_score_ongoing(g, b) ==
    get_score_for_color(g, b, White) - get_score_for_color(g, b, Black)

\* (mutant: a side without moves is scored as mated whether or not it is in check)
get_score_mut(g, b, legal_move_count) ==
    IF legal_move_count = 0
    THEN MATE * polarize(other(g.side_to_move[b]))
    ELSE get_score_ongoing(g, b)

\* get_score(board, legal_move_count)
get_score(g, b, legal_move_count) ==
    IF legal_move_count = 0 /\ in_check(g, b)
    THEN MATE * polarize(other(g.side_to_move[b]))
    ELSE IF legal_move_count > 0
    THEN get_score_ongoing(g, b)
    ELSE 0

\* ------------------------------------------------------------ search.rs
I16_MAX == 32767
I16_MIN == -32768
abs(x) == IF x < 0 THEN -x ELSE x
max(x, y) == IF x >= y THEN x ELSE y
min(x, y) == IF x <= y THEN x ELSE y

\* struct SearchResult
SearchResult(eval, mv, depth) == [eval |-> eval, mv |-> mv, depth |-> depth]

\* Searcher::new: an empty transposition table and zeroed statistics. The
\* field inserts is history: the insertions into tp made by the running or
\* last search call, each with the depth of the entry it replaced.
EmptyTable == [b \in {} |-> None]
Searcher_new == [tp |-> EmptyTable, nodes |-> 0, pruned |-> 0, cached |-> 0,
                 inserts |-> {}]

\* Searcher::reset_stats
reset_stats(self) == [self EXCEPT !.nodes = 0, !.pruned = 0, !.cached = 0]

\* HashMap::insert / HashMap::clear on the transposition table
tp_insert(tp, b, sr) == (b :> sr) @@ tp
\* The insertion of sr for b into tp, as history
inserted(tp, b, sr) ==
    [board |-> b,
     old |-> IF b \in DOMAIN tp THEN Some(tp[b].depth) ELSE None,
     new |-> sr.depth]
\* (mutant: the table is kept between searches)
tp_clear_mut(tp) == tp
tp_clear(tp) == EmptyTable

\* sort_by_promise: a stable sort by the static score of the position after the
\* move (scored with the parent's move count), reversed for White.
RECURSIVE insert_sorted(_, _, _, _)
insert_sorted(g, n, sorted, mv) ==
    IF sorted = << >> THEN <<mv>>
    ELSE IF get_score(g, game_make_move(g, mv.from, mv), n)
              < get_score(g, game_make_move(g, mv.from, Head(sorted)), n)
    THEN <<mv>> \o sorted
    ELSE <<Head(sorted)>> \o insert_sorted(g, n, Tail(sorted), mv)

RECURSIVE sort_by_key(_, _, _)
sort_by_key(g, n, moves) ==
    IF moves = << >> THEN << >>
    ELSE insert_sorted(g, n, sort_by_key(g, n, SubSeq(moves, 1, Len(moves) - 1)),
                       moves[Len(moves)])

reverse(seq) == [i \in 1 .. Len(seq) |-> seq[Len(seq) + 1 - i]]

sort_by_promise(g, b, moves) ==
    LET sorted == sort_by_key(g, Len(moves), moves)
    IN IF g.side_to_move[b] = White THEN reverse(sorted) ELSE sorted

\* The leaf of alphabeta: the static score, a mate score moved toward zero by
\* the ply.
leaf_result(g, b, legal_move_count, depth) ==
    LET eval == get_score(g, b, legal_move_count)
    IN SearchResult(IF abs(eval) = MATE
                    THEN eval + depth * polarize(g.side_to_move[b])
                    ELSE eval,
                    None, 0)

\* (mutant: the best score starts at zero, not at minus infinity)
initial_eval_mut(color) == 0
\* The best-so-far score a node starts from: -i16::MAX * polarize
initial_eval(color) == (-I16_MAX) * polarize(color)

\* (mutant: an entry of exactly the depth to go is searched again)
tp_hit_mut(entry_depth, depth_to_go) == entry_depth > depth_to_go
\* The transposition probe: sr.depth >= depth_to_go
tp_hit(entry_depth, depth_to_go) == entry_depth >= depth_to_go

\* (mutant: the loop stops as soon as the budget is reached)
budget_exceeded_mut(elapsed, thinking_time) == elapsed >= thinking_time
\* start.elapsed() > thinking_time
budget_exceeded(elapsed, thinking_time) == elapsed > thinking_time

\* Searcher::alphabeta and its loop over the sorted moves. Both return the
\* Searcher afterwards and the SearchResult.
RECURSIVE alphabeta(_, _, _, _, _, _, _)
RECURSIVE search_moves(_, _, _, _, _, _, _, _, _)

search_moves(g, self, b, max_depth, depth, alpha, beta, moves, sr) ==
    IF moves = << >> THEN [self |-> self, sr |-> sr]
    ELSE
      LET mv == Head(moves)
          white == g.side_to_move[b] = White
          child == alphabeta(g, self, game_make_move(g, b, mv), max_depth,
                             depth + 1, alpha, beta)
          score == child.sr
          better == IF white THEN score.eval > sr.eval ELSE score.eval < sr.eval
          sr1 == IF better THEN [sr EXCEPT !.eval = score.eval, !.mv = Some(mv)]
                 ELSE sr
          alpha1 == IF white THEN max(alpha, score.eval) ELSE alpha
          beta1 == IF white THEN beta ELSE min(beta, score.eval)
      IN IF beta1 <= alpha1
         THEN [self |-> [child.self EXCEPT !.pruned = @ + 1], sr |-> sr1]
         ELSE search_moves(g, child.self, b, max_depth, depth, alpha1, beta1,
                           Tail(moves), sr1)

alphabeta(g, self, b, max_depth, depth, alpha, beta) ==
    LET counted == [self EXCEPT !.nodes = @ + 1]
        depth_to_go == max_depth - depth
        moves == get_legal_moves(g, b)
        is_game_over == Len(moves) = 0
    IN IF b \in DOMAIN counted.tp /\ tp_hit(counted.tp[b].depth, depth_to_go)
       THEN [self |-> [counted EXCEPT !.cached = @ + 1], sr |-> counted.tp[b]]
       ELSE IF depth >= max_depth \/ is_game_over
       THEN [self |-> counted, sr |-> leaf_result(g, b, Len(moves), depth)]
       ELSE
         LET r == search_moves(g, counted, b, max_depth, depth, alpha, beta,
                               sort_by_promise(g, b, moves),
                               SearchResult(initial_eval(g.side_to_move[b]),
                                            None, depth_to_go))
         IN [self |-> [r.self EXCEPT !.tp = tp_insert(@, b, r.sr),
                                     !.inserts = @ \cup {inserted(r.self.tp, b, r.sr)}],
             sr |-> r.sr]

\* Searcher::search_depth
search_depth(g, self, b, depth) ==
    alphabeta(g, reset_stats(self), b, depth, 0, I16_MIN, I16_MAX)

\* ------------------------------------------------------------ strings
\* A &str is the sequence of its characters, a character a string of length 1.
Digits == <<"0", "1", "2", "3", "4", "5", "6", "7", "8", "9">>
Lower == <<"a", "b", "c", "d", "e", "f", "g", "h", "i", "j", "k", "l", "m",
           "n", "o", "p", "q", "r", "s", "t", "u", "v", "w", "x", "y", "z">>
Upper == <<"A", "B", "C", "D", "E", "F", "G", "H", "I", "J", "K", "L", "M",
           "N", "O", "P", "Q", "R", "S", "T", "U", "V", "W", "X", "Y", "Z">>
IndexOf(seq, x) == CHOOSE i \in 1 .. Len(seq) : seq[i] = x

\* ch as u8: the ASCII code of the characters the inputs are made of
Code(ch) ==
    CASE ch \in SetOf(Digits) -> 47 + IndexOf(Digits, ch)
      [] ch \in SetOf(Upper) -> 64 + IndexOf(Upper, ch)
      [] ch \in SetOf(Lower) -> 96 + IndexOf(Lower, ch)
      [] ch = " " -> 32
      [] ch = "-" -> 45
      [] ch = "/" -> 47

\* char::is_numeric, char::to_digit(10), char::is_uppercase,
\* char::to_ascii_lowercase
is_numeric(ch) == ch \in SetOf(Digits)
to_digit(ch) == IF ch \in SetOf(Digits) THEN Some(IndexOf(Digits, ch) - 1) ELSE None
is_uppercase(ch) == ch \in SetOf(Upper)
to_ascii_lowercase(ch) == IF ch \in SetOf(Upper) THEN Lower[IndexOf(Upper, ch)] ELSE ch

\* str::split(sep): the pieces between the separators, in order (one more
\* than there are separators, some possibly empty)
RECURSIVE split(_, _)
split(str, sep) ==
    IF \A i \in 1 .. Len(str) : str[i] # sep THEN <<str>>
    ELSE LET i == CHOOSE k \in 1 .. Len(str) :
                      str[k] = sep /\ \A j \in 1 .. (k - 1) : str[j] # sep
         IN <<SubSeq(str, 1, i - 1)>> \o split(SubSeq(str, i + 1, Len(str)), sep)

\* [&str]::join(sep)
RECURSIVE join(_, _)
join(words, sep) ==
    IF words = << >> THEN << >>
    ELSE IF Len(words) = 1 THEN words[1]
    ELSE words[1] \o <<sep>> \o join(Tail(words), sep)

\* ------------------------------------------------------------ notation
\* Square::from_notation(rank, file): the square of a rank and a file character
Square_from_notation(rank_ch, file_ch) ==
    IF Code(rank_ch) < Code("1") \/ Code(rank_ch) > Code("8") THEN None
    ELSE IF Code(file_ch) < Code("a") \/ Code(file_ch) > Code("h") THEN None
    ELSE Some(((Code(rank_ch) - Code("1")) * 8) + (Code(file_ch) - Code("a")))

\* Square::from_notation(&str) of a two-character slice: file, then rank
Square_from_str(str) == Square_from_notation(str[2], str[1])

\* Square::to_notation: the pair (rank character, file character)
Square_to_notation(sq) == <<Digits[rank(sq) + 2], Lower[file(sq) + 1]>>

\* (mutant: the knight is written with the king's letter)
as_char_mut(piece) ==
    CASE piece = Pawn -> "p" [] piece = Knight -> "k" [] piece = Bishop -> "b"
      [] piece = Rook -> "r" [] piece = Queen -> "q" [] piece = King -> "k"
\* Piece::as_char
as_char(piece) ==
    CASE piece = Pawn -> "p" [] piece = Knight -> "n" [] piece = Bishop -> "b"
      [] piece = Rook -> "r" [] piece = Queen -> "q" [] piece = King -> "k"

\* Piece::from_char
from_char(ch) ==
    CASE ch = "p" -> Some(Pawn) [] ch = "n" -> Some(Knight)
      [] ch = "b" -> Some(Bishop) [] ch = "r" -> Some(Rook)
      [] ch = "q" -> Some(Queen) [] ch = "k" -> Some(King)
      [] OTHER -> None

\* Movement::from_notation(lan) -> Option<Movement>
Movement_from_notation(lan) ==
    IF Len(lan) < 2 THEN None
    ELSE LET from_square == Square_from_str(SubSeq(lan, 1, 2))
         IN IF from_square = None THEN None
            ELSE IF Len(lan) < 4 THEN None
            ELSE LET to_square == Square_from_str(SubSeq(lan, 3, 4))
                     promote == IF Len(lan) >= 5 THEN from_char(lan[5]) ELSE None
                 IN IF to_square = None THEN None
                    ELSE Some(Movement_new(from_square[1], to_square[1], promote))

\* Movement::to_notation(&self) -> String
Movement_to_notation(self) ==
    LET from_notation == Square_to_notation(self.from_square)
        to_notation == Square_to_notation(self.to_square)
        lan == <<from_notation[2], from_notation[1], to_notation[2], to_notation[1]>>
    IN IF self.promote # None THEN Append(lan, as_char(self.promote[1])) ELSE lan

\* ------------------------------------------------------------ Board::from_fen
\* u8 addition and multiplication: beyond 255 the process aborts with overflow
\* checks and the result wraps modulo 2^8 without them.
U8Add(a, b, checks) ==
    IF a + b <= 255 THEN [panic |-> FALSE, val |-> a + b]
    ELSE IF checks THEN [panic |-> TRUE, val |-> 0]
    ELSE [panic |-> FALSE, val |-> (a + b) % 256]
U8Mul(a, b, checks) ==
    IF a * b <= 255 THEN [panic |-> FALSE, val |-> a * b]
    ELSE IF checks THEN [panic |-> TRUE, val |-> 0]
    ELSE [panic |-> FALSE, val |-> (a * b) % 256]

\* Square::new on u8 values that may overflow: (rank * 8) + file
Square_new_u8(r, f, checks) ==
    LET prod == U8Mul(r, 8, checks)
    IN IF prod.panic THEN prod ELSE U8Add(prod.val, f, checks)

\* flip_mut of a square that may lie outside the 64 bits: the shift by 64 or
\* more aborts with overflow checks and takes the amount modulo 64 without.
flip_u8(bb, sq, checks) ==
    IF sq <= 63 THEN [panic |-> FALSE, val |-> flip(bb, sq)]
    ELSE IF checks THEN [panic |-> TRUE, val |-> bb]
    ELSE [panic |-> FALSE, val |-> flip(bb, sq % 64)]

\* Board::empty
Board_empty == MkBoard({}, {}, {}, {}, {}, {}, {}, {}, None, White, 15)

\* str::contains(char)
contains(str, ch) == ch \in SetOf(str)

\* The loop of from_fen over the characters of one rank of the placement.
\* st holds the board, rank_index, file_index and how the parse stands:
\* "ok", "None" (returned None) or "panic" (aborted).
RECURSIVE fen_rank_chars(_, _, _)
fen_rank_chars(st, chars, checks) ==
    IF chars = << >> \/ st.status # "ok" THEN st
    ELSE
      LET piece_char == Head(chars)
      IN IF is_numeric(piece_char)
         THEN LET digit == to_digit(piece_char)
                  sum == U8Add(st.file_index, digit[1], checks)
              IN IF digit = None THEN [st EXCEPT !.status = "None"]
                 ELSE IF sum.panic THEN [st EXCEPT !.status = "panic"]
                 ELSE fen_rank_chars([st EXCEPT !.file_index = sum.val],
                                     Tail(chars), checks)
         ELSE
           LET piece == from_char(to_ascii_lowercase(piece_char))
               color == IF is_uppercase(piece_char) THEN White ELSE Black
               square == Square_new_u8(st.rank_index, st.file_index, checks)
               pbb == flip_u8(st.board.pieces[piece[1]], square.val, checks)
               cbb == flip_u8(st.board.color_combined[color], square.val, checks)
               next == U8Add(st.file_index, 1, checks)
           IN IF piece = None THEN [st EXCEPT !.status = "None"]
              ELSE IF square.panic \/ pbb.panic \/ cbb.panic \/ next.panic
              THEN [st EXCEPT !.status = "panic"]
              ELSE fen_rank_chars(
                     [st EXCEPT !.board.pieces[piece[1]] = pbb.val,
                                !.board.color_combined[color] = cbb.val,
                                !.file_index = next.val],
                     Tail(chars), checks)

\* The loop of from_fen over the ranks of the placement: rank_index -= 1, then
\* the characters of the rank from file_index 0.
RECURSIVE fen_ranks(_, _, _)
fen_ranks(st, ranks, checks) ==
    IF ranks = << >> \/ st.status # "ok" THEN st
    ELSE LET dec == U8Sub(st.rank_index, 1, checks)
         IN IF dec.panic THEN [st EXCEPT !.status = "panic"]
            ELSE fen_ranks(fen_rank_chars([st EXCEPT !.rank_index = dec.val,
                                                     !.file_index = 0],
                                          Head(ranks), checks),
                           Tail(ranks), checks)

\* The en passant field: a square when it has two characters that name one
fen_en_passant(field) ==
    IF Len(field) = 2 THEN Square_from_notation(field[2], field[1]) ELSE None

\* The four calls of set_castling_mut for the castling field
fen_castling(castling, castling_string) ==
    LET c1 == set_castling_mut(castling, WhiteKingside, contains(castling_string, "K"))
        c2 == set_castling_mut(c1, WhiteQueenside, contains(castling_string, "Q"))
        c3 == set_castling_mut(c2, BlackKingside, contains(castling_string, "k"))
    IN set_castling_mut(c3, BlackQueenside, contains(castling_string, "q"))

\* The side-to-move field: White for "w", Black for anything else
fen_side_to_move(field) == IF field = <<"w">> THEN White ELSE Black

\* Board::from_fen(s) -> Option<Board>: the outcome "Some", "None" or "panic"
\* and the board built.
from_fen(str, checks) ==
    LET fen_split == split(str, " ")
        placed == fen_ranks([board |-> Board_empty, rank_index |-> 8,
                             file_index |-> 0, status |-> "ok"],
                            split(fen_split[1], "/"), checks)
    IN IF placed.status # "ok" THEN [ret |-> placed.status, board |-> placed.board]
       ELSE IF Len(fen_split) < 2
       THEN [ret |-> "None", board |-> placed.board]
       ELSE IF Len(fen_split) < 3
       THEN [ret |-> "None", board |-> placed.board]
       ELSE IF Len(fen_split) < 4
       THEN [ret |-> "None", board |-> placed.board]
       ELSE [ret |-> "Some",
             board |-> [placed.board EXCEPT
                          !.side_to_move = fen_side_to_move(fen_split[2]),
                          !.castling = fen_castling(@, fen_split[3]),
                          !.en_passant = fen_en_passant(fen_split[4])]]

\* ------------------------------------------------------------ uci.rs
\* The words of the protocol
w_uci == <<"u", "c", "i">>
w_debug == <<"d", "e", "b", "u", "g">>
w_true == <<"t", "r", "u", "e">>
w_false == <<"f", "a", "l", "s", "e">>
w_isready == <<"i", "s", "r", "e", "a", "d", "y">>
w_ucinewgame == <<"u", "c", "i", "n", "e", "w", "g", "a", "m", "e">>
w_position == <<"p", "o", "s", "i", "t", "i", "o", "n">>
w_startpos == <<"s", "t", "a", "r", "t", "p", "o", "s">>
w_fen == <<"f", "e", "n">>
w_moves == <<"m", "o", "v", "e", "s">>
w_go == <<"g", "o">>
w_ponder == <<"p", "o", "n", "d", "e", "r">>
w_infinite == <<"i", "n", "f", "i", "n", "i", "t", "e">>
w_searchmoves == <<"s", "e", "a", "r", "c", "h", "m", "o", "v", "e", "s">>
w_wtime == <<"w", "t", "i", "m", "e">>
w_btime == <<"b", "t", "i", "m", "e">>
w_winc == <<"w", "i", "n", "c">>
w_binc == <<"b", "i", "n", "c">>
w_movestogo == <<"m", "o", "v", "e", "s", "t", "o", "g", "o">>
w_depth == <<"d", "e", "p", "t", "h">>
w_nodes == <<"n", "o", "d", "e", "s">>
w_mate == <<"m", "a", "t", "e">>
w_movetime == <<"m", "o", "v", "e", "t", "i", "m", "e">>
w_stop == <<"s", "t", "o", "p">>
w_ponderhit == <<"p", "o", "n", "d", "e", "r", "h", "i", "t">>
w_quit == <<"q", "u", "i", "t">>
w_uwu == <<"u", "w", "u">>

\* u8::from_str / u32::from_str / u64::from_str: the value of a non-empty run
\* of decimal digits that fits the type, None otherwise
RECURSIVE decimal(_, _)
decimal(acc, chars) ==
    IF chars = << >> THEN acc
    ELSE decimal(acc * 10 + to_digit(Head(chars))[1], Tail(chars))
from_str(chars, max_value) ==
    IF chars = << >> \/ \E ch \in SetOf(chars) : ~is_numeric(ch) THEN None
    ELSE IF Len(chars) > 9 THEN None
    ELSE IF decimal(0, chars) > max_value THEN None
    ELSE Some(decimal(0, chars))
U8_MAX == 255
\* u32 and u64 hold every value of up to nine digits
WIDE_MAX == 999999999

\* GoOptions::empty and Go::new
GoOptions_empty ==
    [search_moves |-> None, white_time |-> None, black_time |-> None,
     white_increment |-> None, black_increment |-> None, moves_to_go |-> None,
     depth |-> None, nodes |-> None, mate |-> None, move_time |-> None]
Go_new(instruction) == [instruction |-> instruction, option |-> GoOptions_empty]

\* get_moves: every remaining word parsed as a Movement, None if one fails
RECURSIVE get_moves(_)
get_moves(words) ==
    IF words = << >> THEN Some(<< >>)
    ELSE LET mv == Movement_from_notation(Head(words))
             rest == get_moves(Tail(words))
         IN IF mv = None THEN None
            ELSE IF rest = None THEN None
            ELSE Some(<<mv[1]>> \o rest[1])

\* The words after the first "moves", None when there is no such word
after_moves(words) ==
    IF w_moves \notin SetOf(words) THEN None
    ELSE Some(SubSeq(words, IndexOf(words, w_moves) + 1, Len(words)))
\* The words before the first "moves"
before_moves(words) == SubSeq(words, 1, IndexOf(words, w_moves) - 1)

\* The field and the type a go option word stores its number in
GoNumberField(word) ==
    CASE word = w_wtime -> <<"white_time", WIDE_MAX>>
      [] word = w_btime -> <<"black_time", WIDE_MAX>>
      [] word = w_winc -> <<"white_increment", WIDE_MAX>>
      [] word = w_binc -> <<"black_increment", WIDE_MAX>>
      [] word = w_movestogo -> <<"moves_to_go", U8_MAX>>
      [] word = w_depth -> <<"depth", U8_MAX>>
      [] word = w_nodes -> <<"nodes", WIDE_MAX>>
      [] word = w_mate -> <<"mate", U8_MAX>>
      [] word = w_movetime -> <<"move_time", WIDE_MAX>>
      [] OTHER -> << >>

\* The loop of parse over the words of a go command: the Go built so far, or
\* "None" when parse returns None. An option word needs the Go that the word
\* ponder or infinite has made before it (go.as_mut()?).
RECURSIVE go_words(_, _)
go_words(go, words) ==
    IF words = << >> THEN [ret |-> "ok", go |-> go]
    ELSE
      LET word == Head(words)
          target == go
      IN IF word = w_ponder THEN go_words(Some(Go_new("Ponder")), Tail(words))
         ELSE IF word = w_infinite THEN go_words(Some(Go_new("Infinite")), Tail(words))
         ELSE IF word = w_searchmoves
         THEN LET mvs == get_moves(Tail(words))
              IN IF mvs = None \/ target = None THEN [ret |-> "None", go |-> go]
                 ELSE [ret |-> "ok",
                       go |-> Some([target[1] EXCEPT !.option.search_moves = mvs])]
         ELSE IF GoNumberField(word) # << >>
         THEN IF Len(words) < 2 \/ target = None THEN [ret |-> "None", go |-> go]
              ELSE LET field == GoNumberField(word)
                       value == from_str(words[2], field[2])
                   IN go_words(Some([target[1] EXCEPT !.option[field[1]] = value]),
                               Tail(Tail(words)))
         ELSE go_words(go, Tail(words))

\* parse(s) -> Option<EngineMessage>: "Some" with the message, "None", or
\* "panic" when from_fen aborts
ParseNone == [ret |-> "None", msg |-> [tag |-> "none"]]
ParseSome(msg) == [ret |-> "Some", msg |-> msg]
parse(str, checks) ==
    LET words == split(str, " ")
        first == words[1]
        rest == Tail(words)
    IN CASE first = w_uci -> ParseSome([tag |-> "UCI"])
         [] first = w_debug ->
              IF rest = << >> THEN ParseNone
              ELSE IF rest[1] = w_true THEN ParseSome([tag |-> "Debug", on |-> TRUE])
              ELSE IF rest[1] = w_false THEN ParseSome([tag |-> "Debug", on |-> FALSE])
              ELSE ParseNone
         [] first = w_isready -> ParseSome([tag |-> "IsReady"])
         [] first = w_ucinewgame -> ParseSome([tag |-> "UCINewGame"])
         [] first = w_position ->
              IF rest = << >> THEN ParseNone
              ELSE IF rest[1] = w_startpos
              THEN LET tail == after_moves(Tail(rest))
                   IN IF tail = None THEN ParseNone
                      ELSE IF get_moves(tail[1]) = None THEN ParseNone
                      ELSE ParseSome([tag |-> "Position", board |-> from_start_pos,
                                      moves |-> get_moves(tail[1])[1]])
              ELSE IF rest[1] = w_fen
              THEN LET tail == after_moves(Tail(rest))
                       fen == join(before_moves(Tail(rest)), " ")
                       b == from_fen(fen, checks)
                   IN IF tail = None THEN ParseNone
                      ELSE IF b.ret = "panic" THEN [ret |-> "panic", msg |-> [tag |-> "none"]]
                      ELSE IF b.ret = "None" THEN ParseNone
                      ELSE IF get_moves(tail[1]) = None THEN ParseNone
                      ELSE ParseSome([tag |-> "Position", board |-> b.board,
                                      moves |-> get_moves(tail[1])[1]])
              ELSE ParseNone
         [] first = w_go ->
              LET r == go_words(None, rest)
              IN IF r.ret = "None" \/ r.go = None THEN ParseNone
                 ELSE ParseSome([tag |-> "Go", go |-> r.go[1]])
         [] first = w_stop -> ParseSome([tag |-> "Stop"])
         [] first = w_ponderhit -> ParseSome([tag |-> "PonderHit"])
         [] first = w_quit -> ParseSome([tag |-> "Quit"])
         [] first = w_uwu ->
              ParseSome([tag |-> "DontMissTheShredderChessAnnualBarbeque"])
         [] OTHER -> ParseNone

\* ------------------------------------------------------------ attack tables
\* BitBoard shifts: the bits pushed beyond bit 63 or below bit 0 are lost
shl(bb, k) == {sq + k : sq \in bb} \cap Squares
shr(bb, k) == {sq - k : sq \in bb} \cap Squares

\* Iterating a BitBoard yields its squares in ascending order
RECURSIVE ascending(_)
ascending(bb) ==
    IF bb = {} THEN << >>
    ELSE LET lsb == CHOOSE sq \in bb : \A other_sq \in bb : sq <= other_sq
         IN <<lsb>> \o ascending(bb \ {lsb})

\* helpers: the squares outside the a file, the a and b files, the h file,
\* the g and h files
NOT_A_FILE == {sq \in Squares : file(sq) # 0}
NOT_AB_FILE == {sq \in Squares : file(sq) \notin {0, 1}}
NOT_H_FILE == {sq \in Squares : file(sq) # 7}
NOT_GH_FILE == {sq \in Squares : file(sq) \notin {6, 7}}

\* (mutant: the two-files-right jumps are masked like the one-file-right ones)
knight_jumps_mut(from_sq_index) ==
    LET only_from_sq == {from_sq_index}
    IN (shl(only_from_sq, 17) \cap NOT_A_FILE)
       \cup (shl(only_from_sq, 10) \cap NOT_A_FILE)
       \cup (shr(only_from_sq, 6) \cap NOT_A_FILE)
       \cup (shr(only_from_sq, 15) \cap NOT_A_FILE)
       \cup (shl(only_from_sq, 15) \cap NOT_H_FILE)
       \cup (shl(only_from_sq, 6) \cap NOT_GH_FILE)
       \cup (shr(only_from_sq, 10) \cap NOT_GH_FILE)
       \cup (shr(only_from_sq, 17) \cap NOT_H_FILE)
\* The body of gen_knight_moves' loop: the eight jumps from one square, each
\* masked against the files a jump across the board's edge would land on
knight_jumps(from_sq_index) ==
    LET only_from_sq == {from_sq_index}
    IN (shl(only_from_sq, 17) \cap NOT_A_FILE)
       \cup (shl(only_from_sq, 10) \cap NOT_AB_FILE)
       \cup (shr(only_from_sq, 6) \cap NOT_AB_FILE)
       \cup (shr(only_from_sq, 15) \cap NOT_A_FILE)
       \cup (shl(only_from_sq, 15) \cap NOT_H_FILE)
       \cup (shl(only_from_sq, 6) \cap NOT_GH_FILE)
       \cup (shr(only_from_sq, 10) \cap NOT_GH_FILE)
       \cup (shr(only_from_sq, 17) \cap NOT_H_FILE)

\* gen_knight_moves: the KNIGHT_MOVES array it leaves
gen_knight_moves == [from_sq_index \in Squares |-> knight_jumps(from_sq_index)]

\* knight_moves(square): the entry of KNIGHT_MOVES, whatever it holds
knight_moves(tbl, square) == tbl.KNIGHT_MOVES[square]

\* get_knight_attacks(board, color)
get_knight_attacks(tbl, self, color) ==
    LET my_pieces == self.color_combined[color]
        my_knights == self.pieces[Knight] \cap my_pieces
    IN UNION {knight_moves(tbl, from_sq) : from_sq \in my_knights}

\* get_knight_moves(board, moves, color): moves with one Movement appended for
\* every knight of the colour, in ascending order, and every destination of
\* its table entry outside the colour's own pieces, in ascending order
RECURSIVE knight_moves_from(_, _, _, _)
knight_moves_from(tbl, my_pieces, knights, moves) ==
    IF knights = << >> THEN moves
    ELSE LET from_sq == Head(knights)
             moves_bitboard == knight_moves(tbl, from_sq) \ my_pieces
             targets == ascending(moves_bitboard)
         IN knight_moves_from(tbl, my_pieces, Tail(knights),
               moves \o [i \in 1 .. Len(targets) |->
                           Movement_new(from_sq, targets[i], None)])
get_knight_moves(tbl, self, moves, color) ==
    LET my_pieces == self.color_combined[color]
        my_knights == self.pieces[Knight] \cap my_pieces
    IN knight_moves_from(tbl, my_pieces, ascending(my_knights), moves)

\* ------------------------------------------------------------ magic tables
\* A u64 whose bits are not read as squares (a magic number, a product) is
\* four 16-bit limbs, the least significant first.
LIMB == 65536
u64_zero == <<0, 0, 0, 0>>

\* x << a, for a in 0 .. 63: the bits pushed beyond bit 63 are lost
u64_shl(x, a) ==
    LET w == a \div 16
        b == a % 16
        src(i) == IF i >= 1 THEN x[i] ELSE 0
    IN [i \in 1 .. 4 |->
          ((src(i - w) * (2 ^ b)) % LIMB) + (src(i - w - 1) \div (2 ^ (16 - b)))]

\* x + y modulo 2^64
u64_wrapping_add(x, y) ==
    LET s1 == x[1] + y[1]
        s2 == x[2] + y[2] + (s1 \div LIMB)
        s3 == x[3] + y[3] + (s2 \div LIMB)
        s4 == x[4] + y[4] + (s3 \div LIMB)
    IN <<s1 % LIMB, s2 % LIMB, s3 % LIMB, s4 % LIMB>>

\* BitBoard * BitBoard, the wrapping 64-bit multiplication: number times the
\* u64 whose set bits are the squares of bb, the sum of number << sq
RECURSIVE wrapping_mul(_, _)
wrapping_mul(number, bb) ==
    IF bb = {} THEN u64_zero
    ELSE LET sq == CHOOSE sq \in bb : TRUE
         IN u64_wrapping_add(u64_shl(number, sq), wrapping_mul(number, bb \ {sq}))

\* count_ones
RECURSIVE limb_ones(_)
limb_ones(l) == IF l = 0 THEN 0 ELSE (l % 2) + limb_ones(l \div 2)
count_ones(x) == limb_ones(x[1]) + limb_ones(x[2]) + limb_ones(x[3]) + limb_ones(x[4])

\* x >> right_shift as an index. right_shift is 64 minus the number of squares
\* of an occupancy mask, at most 12, so the index lies in the top limb.
shr_index(x, right_shift) == x[4] \div (2 ^ (right_shift - 48))

\* usize::leading_zeros of a length, usize being 64 bits wide
RECURSIVE bit_length(_)
bit_length(n) == IF n = 0 THEN 0 ELSE 1 + bit_length(n \div 2)
leading_zeros(n) == 64 - bit_length(n)

\* The directions of the rays of a sliding piece, as (rank, file) steps
Directions(piece) ==
    IF piece = Rook THEN {<<1, 0>>, <<-1, 0>>, <<0, 1>>, <<0, -1>>}
    ELSE {<<1, 1>>, <<1, -1>>, <<-1, 1>>, <<-1, -1>>}

\* Whether a step from sq in direction d stays on the board, and where it leads
can_step(sq, d) ==
    /\ rank(sq) + d[1] \in 0 .. 7
    /\ file(sq) + d[2] \in 0 .. 7
step(sq, d) == Square_new(rank(sq) + d[1], file(sq) + d[2])

\* The squares of the ray from sq in direction d, up to and including the
\* first square of blockers
RECURSIVE trace(_, _, _)
trace(sq, d, blockers) ==
    IF ~can_step(sq, d) THEN {}
    ELSE LET next_sq == step(sq, d)
         IN IF next_sq \in blockers THEN {next_sq}
            ELSE {next_sq} \cup trace(next_sq, d, blockers)

\* magic_utils::get_occupancy_mask: the squares of the piece's rays from the
\* source, without the source and without the last square of each ray
get_occupancy_mask(from_sq, piece) ==
    UNION {{sq \in trace(from_sq, d, {}) : can_step(sq, d)} : d \in Directions(piece)}

\* The answer to a question: the squares reachable along the rays, stopping at
\* and including the first blocker in each direction
ray_answer(from_sq, piece, question) ==
    UNION {trace(from_sq, d, question) : d \in Directions(piece)}

\* magic_utils::get_questions_and_answers: every subset of the occupancy mask
\* with its answer. The i-th question holds the k-th square of the mask when
\* bit k of i is set.
question_of(mask_squares, i) ==
    {mask_squares[k] :
        k \in {k \in 1 .. Len(mask_squares) : (i \div (2 ^ (k - 1))) % 2 = 1}}
get_questions_and_answers(from_sq, piece) ==
    {[i \in 1 .. (2 ^ Len(mask_squares)) |->
        [question |-> question_of(mask_squares, i - 1),
         answer |-> ray_answer(from_sq, piece, question_of(mask_squares, i - 1))]] :
     mask_squares \in {ascending(get_occupancy_mask(from_sq, piece))}}

\* struct MagicSquare
MagicSquare_new(number, occupancy_mask, offset, right_shift) ==
    [number |-> number, occupancy_mask |-> occupancy_mask, offset |-> offset,
     right_shift |-> right_shift, empty |-> FALSE]
MagicSquare_empty ==
    [number |-> u64_zero, occupancy_mask |-> {}, offset |-> 0, right_shift |-> 0,
     empty |-> TRUE]

\* The squares gen_all_magics' loops run over, in ascending order
a1 == Square_new(0, 0)
g3 == Square_new(2, 6)
d5 == Square_new(4, 3)
MagicSquares == <<a1, g3, d5>>

\* The numbers BitBoard::random draws from the generator seeded with
\* SEEDS[rank], in the order drawn: the generator is seeded anew by every call
\* of gen_single_magic, so the calls for the squares of one rank draw the
\* same numbers.
RandomDraws(from_rank) ==
    IF from_rank = rank(a1)
    THEN <<u64_zero, <<6274, 544, 64, 16512>>, <<4416, 1028, 516, 10498>>>>
    ELSE IF from_rank = rank(g3)
    THEN <<u64_zero, <<2066, 4229, 1024, 10244>>, <<4096, 276, 53252, 5125>>>>
    ELSE <<u64_zero, <<8272, 16896, 10752, 6208>>, <<128, 32808, 3584, 9344>>>>

\* The only element of a one-element set
the(S) == CHOOSE x \in S : TRUE

\* The index a question hashes to: (magic_bitboard * question) >> right_shift
hash_of(magic_bitboard, question, right_shift) ==
    shr_index(wrapping_mul(magic_bitboard, question), right_shift)

\* One turn of gen_single_magic's loop: whether the number drawn is kept. It
\* is skipped when its product with the mask has fewer than six bits set, and
\* dropped when a question hashes to an index another question has taken.
magic_done(qa, occupancy_mask, right_shift, magic_bitboard) ==
    /\ count_ones(wrapping_mul(magic_bitboard, occupancy_mask)) >= 6
    /\ Cardinality({hash_of(magic_bitboard, qa[i].question, right_shift) :
                      i \in 1 .. Len(qa)}) = Len(qa)
RECURSIVE first_done(_, _, _, _, _)
first_done(qa, occupancy_mask, right_shift, draws, k) ==
    IF magic_done(qa, occupancy_mask, right_shift, draws[k]) THEN draws[k]
    ELSE first_done(qa, occupancy_mask, right_shift, draws, k + 1)

\* The answers as the second loop of gen_single_magic leaves them in
\* MOVES[offset ..]: the number kept sends the questions to distinct indexes,
\* so they are the answers in the order of their indexes.
by_hash(a, b) == a[1] < b[1]
written_moves(qa, number, right_shift) ==
    the({[j \in 1 .. Len(qa) |-> written[j][2]] :
         written \in {SortSeq([i \in 1 .. Len(qa) |->
                                 <<hash_of(number, qa[i].question, right_shift),
                                   qa[i].answer>>], by_hash)}})

\* gen_single_magic(from_sq, piece, cur_offset): the MagicSquare stored for the
\* square, the answers written to MOVES[cur_offset ..] and the offset returned
gen_single_magic(from_sq, piece, cur_offset) ==
    the({the({[magic |-> MagicSquare_new(number, get_occupancy_mask(from_sq, piece),
                                         cur_offset, leading_zeros(Len(qa)) + 1),
               moves |-> written_moves(qa, number, leading_zeros(Len(qa)) + 1),
               offset |-> cur_offset + Len(qa)] :
              number \in {first_done(qa, get_occupancy_mask(from_sq, piece),
                                     leading_zeros(Len(qa)) + 1,
                                     RandomDraws(rank(from_sq)), 1)}}) :
         qa \in get_questions_and_answers(from_sq, piece)})

\* The calls of gen_single_magic for one piece kind, square after square
RECURSIVE gen_magics_of(_, _, _)
gen_magics_of(piece, k, acc) ==
    IF k > Len(MagicSquares) THEN acc
    ELSE the({gen_magics_of(piece, k + 1,
                 [magics |-> acc.magics @@ (MagicSquares[k] :> g.magic),
                  moves |-> acc.moves \o g.moves,
                  offset |-> g.offset]) :
              g \in {gen_single_magic(MagicSquares[k], piece, acc.offset)}})

\* gen_all_magics: the bishops' squares first, then the rooks'; the arrays
\* BISHOP_MAGICS, ROOK_MAGICS and MOVES it leaves
gen_all_magics ==
    LET bishops == gen_magics_of(Bishop, 1, [magics |-> << >>, moves |-> << >>, offset |-> 0])
        rooks == gen_magics_of(Rook, 1, [magics |-> << >>, moves |-> bishops.moves,
                                          offset |-> bishops.offset])
    IN [BISHOP_MAGICS |-> bishops.magics, ROOK_MAGICS |-> rooks.magics,
        MOVES |-> rooks.moves]

\* magic_utils::NUM_MOVES: the number of answers of all the squares
NUM_MOVES == Len(gen_all_magics.MOVES)

\* (mutant: the occupancy is not masked before it is hashed)
lookup_hash_mut(self, occupancy, MOVES) ==
    IF self.empty THEN [ret |-> "panic", bb |-> {}]
    ELSE LET raw_hash == wrapping_mul(self.number, occupancy)
             shifted_hash == shr_index(raw_hash, self.right_shift)
             hash == self.offset + shifted_hash
         IN IF hash >= Len(MOVES) THEN [ret |-> "panic", bb |-> {}]
            ELSE [ret |-> "Ok", bb |-> MOVES[hash + 1]]
\* MagicSquare::lookup_hash: a panic on an empty MagicSquare (and on an index
\* outside MOVES), else the entry of MOVES the masked occupancy hashes to
lookup_hash(self, occupancy, MOVES) ==
    IF self.empty THEN [ret |-> "panic", bb |-> {}]
    ELSE LET raw_hash == wrapping_mul(self.number, self.occupancy_mask \cap occupancy)
             shifted_hash == shr_index(raw_hash, self.right_shift)
             hash == self.offset + shifted_hash
         IN IF hash >= Len(MOVES) THEN [ret |-> "panic", bb |-> {}]
            ELSE [ret |-> "Ok", bb |-> MOVES[hash + 1]]

\* The array MOVES holds one of two values in every execution, all entries
\* BitBoard::empty() or what gen_all_magics wrote: the state keeps which.
EmptyMoves == [i \in 1 .. NUM_MOVES |-> {}]
MOVES_array(moves_tag) ==
    IF moves_tag = "written" THEN gen_all_magics.MOVES ELSE EmptyMoves

\* get_sliding_moves_bb(sq, piece, occupancy)
get_sliding_moves_bb(tbl, sq, piece, occupancy) ==
    IF piece = Rook
    THEN lookup_hash(tbl.ROOK_MAGICS[sq], occupancy, MOVES_array(tbl.MOVES))
    ELSE IF piece = Bishop
    THEN lookup_hash(tbl.BISHOP_MAGICS[sq], occupancy, MOVES_array(tbl.MOVES))
    ELSE IF piece = Queen
    THEN LET bishop_bb == lookup_hash(tbl.BISHOP_MAGICS[sq], occupancy,
                                      MOVES_array(tbl.MOVES))
             rook_bb == lookup_hash(tbl.ROOK_MAGICS[sq], occupancy,
                                    MOVES_array(tbl.MOVES))
         IN IF bishop_bb.ret = "panic" \/ rook_bb.ret = "panic"
            THEN [ret |-> "panic", bb |-> {}]
            ELSE [ret |-> "Ok", bb |-> bishop_bb.bb \cup rook_bb.bb]
    ELSE [ret |-> "panic", bb |-> {}]

\* The static mut arrays before any generation: every BitBoard empty, every
\* MagicSquare MagicSquare::empty()
NoTables ==
    [KNIGHT_MOVES |-> [sq \in Squares |-> {}],
     BISHOP_MAGICS |-> [sq \in SetOf(MagicSquares) |-> MagicSquare_empty],
     ROOK_MAGICS |-> [sq \in SetOf(MagicSquares) |-> MagicSquare_empty],
     MOVES |-> "empty"]
NoLookup == [kind |-> "none", ret |-> "none"]

\* ------------------------------------------------------------ state
VARIABLES
    board,            \* the Board the moves are applied to
    prev,             \* the board before the last call of make_move_mut
    call,             \* that call: its movement, outcome, mover piece and colour
    overflow_checks,  \* whether the build checks integer overflow
    nmoves,           \* number of make_move_mut calls so far
    game,             \* the game the Searcher searches
    searcher,         \* the Searcher: transposition table and statistics
    pc,               \* "idle", or "timed" inside search_timed's loop
    timed,            \* the locals of the running search_timed
    result,           \* the last search call and the SearchResult it returned
    nsearch,          \* number of search calls so far
    eval_call,        \* the last call of get_score and its value
    parsed,           \* the last call of a parser: its input and what it returned
    tables,           \* the process-wide attack tables (the static mut arrays)
    lookup            \* the last lookup in the attack tables and its outcome

board_vars == <<board, prev, call, overflow_checks, nmoves>>
search_vars == <<game, searcher, pc, timed, result, nsearch>>
other_vars == <<parsed, tables, lookup>>
vars == <<board, prev, call, overflow_checks, nmoves,
          game, searcher, pc, timed, result, nsearch, eval_call,
          parsed, tables, lookup>>

\* ------------------------------------------------------------ the board machine
\* The squares and promotion arguments the applied movements are drawn from
e2 == Square_new(1, 4)
e4 == Square_new(3, 4)
e1 == Square_new(0, 4)
b5 == Square_new(4, 1)
b7 == Square_new(6, 1)
c8 == Square_new(7, 2)
MoveSquares == {e1, e2, e4, b5, b7, c8}
Promotions == {None} \cup {Some(p) : p \in Pieces}
MaxMoves == 2

NoCall == [movement |-> None, ret |-> "init", piece |-> None, color |-> White]
NoTimed == [board |-> "R", thinking_time |-> 0, elapsed |-> 0, depth |-> 0,
            deepest |-> None, ran |-> << >>, readings |-> << >>, root_hit |-> FALSE]
NoResult == [kind |-> "none", board |-> "R", depth |-> 0,
             sr |-> SearchResult(0, None, 0), entries_before |-> {},
             thinking_time |-> 0, ran |-> << >>, readings |-> << >>,
             root_hit |-> FALSE]
NoEval == [board |-> "R", legal_move_count |-> 0, score |-> 0, called |-> FALSE]
NoParse == [kind |-> "none", input |-> << >>, output |-> None]

BoardIdle ==
    /\ board = from_start_pos
    /\ prev = from_start_pos
    /\ call = NoCall
    /\ overflow_checks = FALSE
    /\ nmoves = 0

OtherIdle ==
    /\ parsed = NoParse
    /\ tables = NoTables
    /\ lookup = NoLookup

SearchIdle ==
    /\ searcher = Searcher_new
    /\ pc = "idle"
    /\ timed = NoTimed
    /\ result = NoResult
    /\ nsearch = 0

InitBoard ==
    /\ board \in {from_start_pos, promote_test_board}
    /\ prev = board
    /\ call = NoCall
    /\ overflow_checks \in BOOLEAN
    /\ nmoves = 0
    /\ game = GameOf("T", "mate", 1, 0, "moves")
    /\ SearchIdle
    /\ eval_call = NoEval
    /\ OtherIdle

\* A call of make_move_mut on the board
MakeMoveMut ==
    /\ call.ret # "panic"
    /\ nmoves < MaxMoves
    /\ \E f \in MoveSquares, t \in MoveSquares, pr \in Promotions :
         LET m == Movement_new(f, t, pr)
             r == make_move_mut(board, m, overflow_checks)
         IN /\ board' = r.board
            /\ prev' = board
            /\ call' = [movement |-> Some(m), ret |-> r.ret,
                        piece |-> r.piece, color |-> r.color]
    /\ nmoves' = nmoves + 1
    /\ UNCHANGED <<overflow_checks, search_vars, eval_call, other_vars>>

NextBoard == MakeMoveMut

SpecBoard == InitBoard /\ [][NextBoard]_vars

\* ------------------------------------------------------------ the search machine
\* The arguments of the search calls
Roots == {"R", "A", "c1"}
Depths == {0, 1, 3, 5}
Budgets == {0, 1}
\* How far the clock may advance while one iteration runs
Ticks == {0, 1}
\* The last depth search_timed's loop runs (999 in the program)
MaxIterDepth == 3
MaxSearches == 2

InitSearch ==
    /\ BoardIdle
    /\ game \in Games
    /\ SearchIdle
    /\ eval_call = NoEval
    /\ OtherIdle

\* A call of search_depth(board, depth)
SearchDepth ==
    /\ pc = "idle"
    /\ nsearch < MaxSearches
    /\ \E b \in Roots, d \in Depths :
         LET r == search_depth(game, [searcher EXCEPT !.inserts = {}], b, d)
         IN /\ searcher' = r.self
            /\ result' = [NoResult EXCEPT
                            !.kind = "depth", !.board = b, !.depth = d, !.sr = r.sr,
                            !.entries_before = DOMAIN searcher.tp]
    /\ nsearch' = nsearch + 1
    /\ UNCHANGED <<board_vars, game, pc, timed, eval_call, other_vars>>

\* search_timed(board, thinking_time) up to its loop
TimedStart ==
    /\ pc = "idle"
    /\ nsearch < MaxSearches
    /\ \E b \in Roots, t \in Budgets :
         timed' = [NoTimed EXCEPT !.board = b, !.thinking_time = t, !.depth = 1]
    /\ searcher' = reset_stats([searcher EXCEPT !.inserts = {}])
    /\ pc' = "timed"
    /\ nsearch' = nsearch + 1
    /\ result' = [NoResult EXCEPT !.kind = "running",
                                  !.entries_before = DOMAIN searcher.tp]
    /\ UNCHANGED <<board_vars, game, eval_call, other_vars>>

\* One iteration of search_timed's loop: alphabeta at the loop's depth, the
\* result kept in deepest, then the clock read; when the loop ends, the table
\* is cleared and deepest returned.
TimedIter ==
    /\ pc = "timed"
    /\ \E dt \in Ticks :
         LET r == alphabeta(game, searcher, timed.board, timed.depth, 0,
                            I16_MIN, I16_MAX)
             elapsed == timed.elapsed + dt
             hit == /\ timed.board \in DOMAIN searcher.tp
                    /\ searcher.tp[timed.board].depth >= timed.depth
             after == [timed EXCEPT !.elapsed = elapsed,
                                    !.deepest = Some(r.sr),
                                    !.ran = Append(@, timed.depth),
                                    !.readings = Append(@, elapsed),
                                    !.root_hit = hit]
         IN IF budget_exceeded(elapsed, timed.thinking_time)
               \/ timed.depth = MaxIterDepth
            THEN /\ searcher' = [r.self EXCEPT !.tp = tp_clear(@)]
                 /\ pc' = "idle"
                 /\ timed' = NoTimed
                 /\ result' = [result EXCEPT
                                 !.kind = "timed", !.board = timed.board,
                                 !.depth = timed.depth, !.sr = after.deepest[1],
                                 !.thinking_time = timed.thinking_time,
                                 !.ran = after.ran, !.readings = after.readings,
                                 !.root_hit = hit]
            ELSE /\ searcher' = r.self
                 /\ pc' = "timed"
                 /\ timed' = [after EXCEPT !.depth = @ + 1]
                 /\ UNCHANGED result
    /\ UNCHANGED <<board_vars, game, nsearch, eval_call, other_vars>>

NextSearch == SearchDepth \/ TimedStart \/ TimedIter

SpecSearch == InitSearch /\ [][NextSearch]_vars

\* ------------------------------------------------------------ the evaluator
MoveCounts == {0, 1, 2}

\* A call of get_score(board, legal_move_count)
GetScore ==
    /\ \E b \in Positions, n \in MoveCounts :
         eval_call' = [board |-> b, legal_move_count |-> n,
                       score |-> get_score(game, b, n), called |-> TRUE]
    /\ UNCHANGED <<board_vars, search_vars, other_vars>>

NextEval == GetScore

SpecEval == InitSearch /\ [][NextEval]_vars

\* ------------------------------------------------------------ the notation machine
\* Strings handed to Movement::from_notation
e2e4 == <<"e", "2", "e", "4">>
NotationInputs ==
    {<< >>, <<"e", "2">>, <<"e", "2", "e">>, e2e4, <<"i", "2", "e", "4">>,
     <<"e", "9", "e", "4">>, <<"e", "2", "e", "0">>, <<"2", "e", "4", "e">>,
     e2e4 \o <<"x">>, e2e4 \o <<"q", "q">>, <<"a", "7", "a", "8", "q">>,
     <<"E", "2", "E", "4">>, <<"e", "2", "-", "4">>}

\* Everything but the parser call at rest
ParserIdle ==
    /\ BoardIdle
    /\ game = GameOf("T", "mate", 1, 0, "moves")
    /\ SearchIdle
    /\ eval_call = NoEval
    /\ tables = NoTables
    /\ lookup = NoLookup

\* The call about to be made: a Movement to write and parse back, or a string
\* to parse
InitNotation ==
    /\ ParserIdle
    /\ \/ \E f \in Squares, t \in Squares, pr \in Promotions :
            parsed = [kind |-> "movement", input |-> Movement_new(f, t, pr),
                      lan |-> << >>, output |-> None]
       \/ \E lan \in NotationInputs :
            parsed = [kind |-> "lan", input |-> lan, lan |-> lan, output |-> None]

\* m.to_notation() of a Movement, parsed back with Movement::from_notation
NotationRoundTrip ==
    /\ parsed.kind = "movement"
    /\ LET lan == Movement_to_notation(parsed.input)
       IN parsed' = [parsed EXCEPT !.kind = "notation", !.lan = lan,
                                   !.output = Movement_from_notation(lan)]
    /\ UNCHANGED <<board_vars, search_vars, eval_call, tables, lookup>>

\* Movement::from_notation of a string
FromNotation ==
    /\ parsed.kind = "lan"
    /\ parsed' = [parsed EXCEPT !.kind = "parsed",
                                !.output = Movement_from_notation(parsed.lan)]
    /\ UNCHANGED <<board_vars, search_vars, eval_call, tables, lookup>>

NextNotation == NotationRoundTrip \/ FromNotation

SpecNotation == InitNotation /\ [][NextNotation]_vars

\* ------------------------------------------------------------ the FEN machine
\* The piece placements and the fields the strings handed to from_fen are put
\* together from. STARTING_FEN's placement:
StartPlacement ==
    <<"r", "n", "b", "q", "k", "b", "n", "r", "/", "p", "p", "p", "p", "p",
      "p", "p", "p", "/", "8", "/", "8", "/", "8", "/", "8", "/", "P", "P",
      "P", "P", "P", "P", "P", "P", "/", "R", "N", "B", "Q", "K", "B", "N",
      "R">>
\* the placement of test_make_move_promote:
PromotePlacement ==
    <<"1", "n", "b", "q", "k", "b", "n", "r", "/", "r", "P", "1", "p", "p",
      "p", "p", "p", "/", "p", "1", "p", "5", "/", "8", "/", "8", "/", "8",
      "/", "1", "P", "P", "P", "P", "P", "P", "P", "/", "R", "N", "B", "Q",
      "K", "B", "N", "R">>
\* eight empty ranks, nine ranks, a piece on a ninth rank:
EmptyPlacement ==
    <<"8", "/", "8", "/", "8", "/", "8", "/", "8", "/", "8", "/", "8", "/",
      "8">>
NineRanks ==
    <<"8", "/", "8", "/", "8", "/", "8", "/", "8", "/", "8", "/", "8", "/",
      "8", "/", "8">>
NinthRankPiece ==
    <<"8", "/", "8", "/", "8", "/", "8", "/", "8", "/", "8", "/", "8", "/",
      "8", "/", "P", "7">>
\* nine files in the first rank read, as a digit and as nine pawns:
NineFiles ==
    <<"9", "/", "8", "/", "8", "/", "8", "/", "8", "/", "8", "/", "8", "/",
      "8">>
NinePawns ==
    <<"p", "p", "p", "p", "p", "p", "p", "p", "p", "/", "8", "/", "8", "/",
      "8", "/", "8", "/", "8", "/", "8", "/", "8">>
\* an unknown piece letter:
UnknownPiece ==
    <<"x", "7", "/", "8", "/", "8", "/", "8", "/", "8", "/", "8", "/", "8",
      "/", "8">>
Placements ==
    {StartPlacement, PromotePlacement, EmptyPlacement, NineRanks, NinthRankPiece,
     NineFiles, NinePawns, UnknownPiece, << >>}
SideFields == {<<"w">>, <<"b">>, <<"x">>, <<"W">>}
CastlingFields == {<<"K", "Q", "k", "q">>, <<"K", "Q", "k">>, <<"K", "q">>, <<"-">>}
EnPassantFields == {<<"-">>, <<"e", "3">>, <<"e", "9">>}
ClockFields == {<< >>, <<<<"0">>, <<"1">>>>, <<<<"1">>, <<"5">>>>}
\* Every prefix of the fields of a FEN, joined by single spaces
FenFields ==
    {<<pl, sd, ca, ep>> \o ck :
        pl \in Placements, sd \in SideFields, ca \in CastlingFields,
        ep \in EnPassantFields, ck \in ClockFields}
FenInputs ==
    UNION {{join(SubSeq(fields, 1, n), " ") : n \in 1 .. Len(fields)} :
             fields \in FenFields}

InitFen ==
    /\ board = from_start_pos
    /\ prev = from_start_pos
    /\ call = NoCall
    /\ overflow_checks \in BOOLEAN
    /\ nmoves = 0
    /\ game = GameOf("T", "mate", 1, 0, "moves")
    /\ SearchIdle
    /\ eval_call = NoEval
    /\ tables = NoTables
    /\ lookup = NoLookup
    /\ \E str \in FenInputs :
         parsed = [kind |-> "fen", input |-> str, ret |-> "none", output |-> None]

\* A call of Board::from_fen
FromFen ==
    /\ parsed.kind = "fen"
    /\ LET r == from_fen(parsed.input, overflow_checks)
       IN parsed' = [parsed EXCEPT !.kind = "board", !.ret = r.ret,
                                   !.output = Some(r.board)]
    /\ UNCHANGED <<board_vars, search_vars, eval_call, tables, lookup>>

NextFen == FromFen

SpecFen == InitFen /\ [][NextFen]_vars

\* ------------------------------------------------------------ the protocol machine
\* The moves clauses of the position commands: the words and the Movements
\* they name
e7e5 == <<"e", "7", "e", "5">>
b7c8q == <<"b", "7", "c", "8", "q">>
MoveLists ==
    {[words |-> << >>, moves |-> << >>],
     [words |-> <<e2e4>>, moves |-> <<Movement_new(12, 28, None)>>],
     [words |-> <<e2e4, e7e5>>,
      moves |-> <<Movement_new(12, 28, None), Movement_new(52, 36, None)>>],
     [words |-> <<e7e5, e2e4>>,
      moves |-> <<Movement_new(52, 36, None), Movement_new(12, 28, None)>>],
     [words |-> <<b7c8q>>, moves |-> <<Movement_new(49, 58, Some(Queen))>>]}
\* The positions they start from: startpos, or a FEN and its board
PositionBases ==
    {[words |-> <<w_startpos>>, board |-> from_start_pos],
     [words |-> <<w_fen, StartPlacement, <<"w">>, <<"K", "Q", "k", "q">>, <<"-">>,
                  <<"0">>, <<"1">>>>,
      board |-> from_start_pos],
     [words |-> <<w_fen, PromotePlacement, <<"w">>, <<"K", "Q", "k">>, <<"-">>,
                  <<"1">>, <<"5">>>>,
      board |-> promote_test_board],
     [words |-> <<w_fen, PromotePlacement, <<"w">>, <<"K", "Q", "k">>, <<"-">>>>,
      board |-> promote_test_board]}
PositionForms ==
    {[cmd |-> "position", base |-> base, clause |-> FALSE,
      list |-> [words |-> << >>, moves |-> << >>]] : base \in PositionBases}
    \cup {[cmd |-> "position", base |-> base, clause |-> TRUE, list |-> list] :
             base \in PositionBases, list \in MoveLists}
PositionLine(form) ==
    join(<<w_position>> \o form.base.words
           \o (IF form.clause THEN <<w_moves>> \o form.list.words ELSE << >>), " ")

\* The items of the go commands: ponder, infinite, and options with the field
\* and value they carry
GoItems ==
    {[words |-> <<w_ponder>>, field |-> "", value |-> 0],
     [words |-> <<w_infinite>>, field |-> "", value |-> 0],
     [words |-> <<w_depth, <<"5">>>>, field |-> "depth", value |-> 5],
     [words |-> <<w_movetime, <<"1", "0", "0", "0">>>>, field |-> "move_time",
      value |-> 1000],
     [words |-> <<w_wtime, <<"3", "0", "0">>>>, field |-> "white_time", value |-> 300],
     [words |-> <<w_mate, <<"2">>>>, field |-> "mate", value |-> 2]}
SearchMovesItem ==
    [words |-> <<w_searchmoves, e2e4, e7e5>>, field |-> "search_moves",
     value |-> <<Movement_new(12, 28, None), Movement_new(52, 36, None)>>]
MaxGoItems == 3
\* Up to MaxGoItems different items in any order, searchmoves (which takes
\* every word after it) only in the last place
GoItemLists ==
    UNION {{items \in [1 .. n -> GoItems \cup {SearchMovesItem}] :
              /\ \A i, j \in 1 .. n : i # j => items[i] # items[j]
              /\ \A i \in 1 .. (n - 1) : items[i] # SearchMovesItem} :
           n \in 0 .. MaxGoItems}
GoForms == {[cmd |-> "go", items |-> items] : items \in GoItemLists}
RECURSIVE concat(_)
concat(seqs) == IF seqs = << >> THEN << >> ELSE Head(seqs) \o concat(Tail(seqs))
GoLine(form) ==
    join(<<w_go>> \o concat([i \in 1 .. Len(form.items) |-> form.items[i].words]), " ")

\* The other command lines
OtherLines ==
    {<<w_uci>>, <<w_debug>>, <<w_debug, w_true>>, <<w_debug, w_false>>,
     <<w_debug, w_uci>>, <<w_isready>>, <<w_ucinewgame>>, <<w_position>>,
     <<w_position, w_go>>, <<w_stop>>, <<w_ponderhit>>, <<w_quit>>, <<w_uwu>>,
     << << >> >>, <<w_moves>>,
     <<w_position, w_fen, UnknownPiece, <<"w">>, <<"-">>, <<"-">>, w_moves>>,
     <<w_position, w_fen, NineRanks, <<"w">>, <<"-">>, <<"-">>, w_moves>>,
     <<w_position, w_startpos, w_moves, <<"e", "2">>>>,
     <<w_position, w_startpos, w_moves, << >>>>,
     <<w_go, w_infinite, w_depth>>, <<w_go, w_infinite, w_depth, <<"3", "0", "0">>>>,
     <<w_go, w_infinite, w_searchmoves, <<"e", "2">>>>}

InitUci ==
    /\ board = from_start_pos
    /\ prev = from_start_pos
    /\ call = NoCall
    /\ overflow_checks \in BOOLEAN
    /\ nmoves = 0
    /\ game = GameOf("T", "mate", 1, 0, "moves")
    /\ SearchIdle
    /\ eval_call = NoEval
    /\ tables = NoTables
    /\ lookup = NoLookup
    /\ \/ \E form \in PositionForms :
            parsed = [kind |-> "line", input |-> PositionLine(form), form |-> form,
                      output |-> None]
       \/ \E form \in GoForms :
            parsed = [kind |-> "line", input |-> GoLine(form), form |-> form,
                      output |-> None]
       \/ \E words \in OtherLines :
            parsed = [kind |-> "line", input |-> join(words, " "),
                      form |-> [cmd |-> "other"], output |-> None]

\* A call of uci::parse
Parse ==
    /\ parsed.kind = "line"
    /\ parsed' = [parsed EXCEPT !.kind = "message",
                                !.output = Some(parse(parsed.input, overflow_checks))]
    /\ UNCHANGED <<board_vars, search_vars, eval_call, tables, lookup>>

NextUci == Parse

SpecUci == InitUci /\ [][NextUci]_vars

\* ------------------------------------------------------------ the table machine
\* The boards whose knight moves are asked for: the starting position, the
\* boards of knight.rs' tests
\* "b6k/8/7K/2N5/4n3/8/8/4B3 w - - 0 1" and "8/8/2k3K1/8/8/8/N6N/8 w - - 0 1",
knight_test_board ==
    MkBoard({}, {34, 28}, {56, 4}, {}, {}, {63, 47}, {47, 34, 4}, {56, 63, 28},
            None, White, 0)
two_knights_test_board ==
    MkBoard({}, {8, 15}, {}, {}, {}, {42, 46}, {46, 8, 15}, {42},
            None, White, 0)
\* and the boards with one or two knights of one colour anywhere, a knight of
\* the other colour, and pawns of both colours around them.
OwnPawns == {10, 17, 21, 33, 44, 46, 53}
OtherPawns == {11, 12, 23, 29, 42, 45, 50}
OtherKnight == e4
SecondKnights == {0, 14, 27, 63}
KnightBoardOf(color, knights, own_pawns) ==
    LET own == knights \cup (own_pawns \ knights)
        others == ({OtherKnight} \cup OtherPawns) \ own
    IN MkBoard((own \cup others) \ (knights \cup {OtherKnight}),
               knights \cup ({OtherKnight} \cap others), {}, {}, {}, {},
               IF color = White THEN own ELSE others,
               IF color = White THEN others ELSE own,
               None, White, 0)
KnightBoards ==
    {from_start_pos, knight_test_board, two_knights_test_board}
    \cup {KnightBoardOf(color, {k1} \cup k2, own_pawns) :
            color \in Colors, k1 \in Squares,
            k2 \in {{}} \cup {{sq} : sq \in SecondKnights},
            own_pawns \in {{}, OwnPawns}}

\* The occupancies of the sliding lookups: every set of squares of
\* OccupancySquares, which holds squares on and off the rays of MagicSquares,
\* on the edges, and a source square itself
OccupancySquares == {2, 9, 13, 19, 24, 35, 36, 39}
Sliders == {Bishop, Rook, Queen}

\* Whether gen_knight_moves, gen_all_magics has run
knights_generated(tbl) == tbl.KNIGHT_MOVES # NoTables.KNIGHT_MOVES
magics_generated(tbl) == \E sq \in SetOf(MagicSquares) : ~tbl.ROOK_MAGICS[sq].empty

\* Everything but the tables at rest; the lookup about to be made
InitTables ==
    /\ prev = from_start_pos
    /\ call = NoCall
    /\ overflow_checks = FALSE
    /\ nmoves = 0
    /\ game = GameOf("T", "mate", 1, 0, "moves")
    /\ SearchIdle
    /\ eval_call = NoEval
    /\ parsed = NoParse
    /\ tables = NoTables
    /\ \/ /\ board \in KnightBoards
          /\ \E color \in Colors :
               lookup = [kind |-> "knights", color |-> color, moves |-> << >>,
                         generated |-> FALSE, ret |-> "none", out |-> << >>]
       \/ /\ board \in {from_start_pos, two_knights_test_board}
          /\ \E color \in Colors :
               lookup = [kind |-> "knights", color |-> color,
                         moves |-> <<Movement_new(e2, e4, None)>>,
                         generated |-> FALSE, ret |-> "none", out |-> << >>]
       \/ /\ board = from_start_pos
          /\ \E sq \in SetOf(MagicSquares), piece \in Sliders \cup {Knight},
                occupancy \in SUBSET OccupancySquares :
               lookup = [kind |-> "sliding", sq |-> sq, piece |-> piece,
                         occupancy |-> occupancy,
                         generated |-> FALSE, ret |-> "none", out |-> {}]

\* gen_knight_moves()
GenKnightMoves ==
    /\ tables' = [tables EXCEPT !.KNIGHT_MOVES = gen_knight_moves]
    /\ UNCHANGED <<board_vars, search_vars, eval_call, parsed, lookup>>

\* gen_all_magics()
GenAllMagics ==
    /\ tables' = [tables EXCEPT !.BISHOP_MAGICS = gen_all_magics.BISHOP_MAGICS,
                                !.ROOK_MAGICS = gen_all_magics.ROOK_MAGICS,
                                !.MOVES = "written"]
    /\ UNCHANGED <<board_vars, search_vars, eval_call, parsed, lookup>>

\* get_knight_moves(&board, &mut moves, color): it returns normally whatever
\* KNIGHT_MOVES holds
GetKnightMoves ==
    /\ lookup.kind = "knights"
    /\ lookup' = [lookup EXCEPT !.kind = "knights_done",
                                !.generated = knights_generated(tables),
                                !.ret = "Ok",
                                !.out = get_knight_moves(tables, board, lookup.moves,
                                                         lookup.color)]
    /\ UNCHANGED <<board_vars, search_vars, eval_call, parsed, tables>>

\* get_sliding_moves_bb(sq, piece, &occupancy)
GetSlidingMoves ==
    /\ lookup.kind = "sliding"
    /\ LET r == get_sliding_moves_bb(tables, lookup.sq, lookup.piece, lookup.occupancy)
       IN lookup' = [lookup EXCEPT !.kind = "sliding_done",
                                   !.generated = magics_generated(tables),
                                   !.ret = r.ret,
                                   !.out = r.bb]
    /\ UNCHANGED <<board_vars, search_vars, eval_call, parsed, tables>>

NextTables == GenKnightMoves \/ GenAllMagics \/ GetKnightMoves \/ GetSlidingMoves

SpecTables == InitTables /\ [][NextTables]_vars

\* ------------------------------------------------------------ board claims
\* What the last call was about
Applied == call.ret = "Some"
LastFrom == call.movement[1].from_square
LastTo == call.movement[1].to_square
LastPromote == call.movement[1].promote
\* The piece kind and colour on the origin square before the call, read from
\* the bitboards: the lowest kind set there, White when the White bit is set.
LastPiece == call.piece[1]
OccupiedBy(b, color, sq) == get(b.color_combined[color], sq)
AllPieces(b) == UNION {b.pieces[p] : p \in Pieces}
KindsAt(b, sq) == {p \in Pieces : get(b.pieces[p], sq)}
BoardInvariant(b) ==
    /\ b.color_combined[White] \cap b.color_combined[Black] = {}
    /\ b.color_combined[White] \cup b.color_combined[Black] = AllPieces(b)
    /\ \A sq \in Squares : Cardinality(KindsAt(b, sq)) <= 1
IsCapture == Applied /\ OccupiedBy(prev, other(call.color), LastTo)

\* C1: after any sequence of successfully applied moves, captures included,
\* the White and Black colour bitboards are disjoint and their union equals
\* the union of the six piece bitboards.
C1_ColoursPartitionOccupied ==
    (call.ret \in {"init", "Some", "None"}) =>
        /\ board.color_combined[White] \cap board.color_combined[Black] = {}
        /\ board.color_combined[White] \cup board.color_combined[Black]
              = AllPieces(board)

\* C2: a move onto a square holding an opponent piece removes that piece from
\* its piece bitboard and from the opponent's colour bitboard, so that every
\* square is set in at most one piece bitboard.
C2_CaptureRemovesPiece ==
    /\ IsCapture => ~OccupiedBy(board, other(call.color), LastTo)
    /\ (call.ret \in {"init", "Some", "None"}) =>
          \A sq \in Squares : Cardinality(KindsAt(board, sq)) <= 1

\* C3: after every successfully applied move the origin square is clear in the
\* moved piece's bitboard and the destination square is set in the bitboard of
\* the moved kind, or of the promotion kind when promote is set (and then the
\* pawn bitboard has neither square), for quiet moves and for captures alike.
C3_PiecePlacedOnDestination ==
    Applied =>
        /\ ~get(board.pieces[LastPiece], LastFrom)
        /\ get(board.pieces[placed_piece(LastPiece, call.movement[1])], LastTo)
        /\ LastPromote # None =>
              /\ ~get(board.pieces[Pawn], LastFrom)
              /\ ~get(board.pieces[Pawn], LastTo)

\* C10: after a successfully applied move, en_passant is Some(the square behind
\* the destination, which the pawn skipped) if and only if the origin square
\* held a pawn and the move advanced it exactly two ranks (up the board for a
\* White mover, down for a Black one); after every other move it is None.
PawnAdvancedTwo ==
    /\ get(prev.pieces[Pawn], LastFrom)
    /\ IF OccupiedBy(prev, White, LastFrom)
       THEN rank(LastTo) = rank(LastFrom) + 2
       ELSE rank(LastFrom) = rank(LastTo) + 2
SkippedSquare == Square_new((rank(LastFrom) + rank(LastTo)) \div 2, file(LastTo))
C10_EnPassantIffDoublePush ==
    Applied =>
        board.en_passant = IF PawnAdvancedTwo THEN Some(SkippedSquare) ELSE None

\* C10 witness: a move applied after a double push cleared the en_passant
\* square the double push had set.
C10_Witness ==
    /\ Applied
    /\ prev.en_passant # None
    /\ board.en_passant = None

\* The castling rights a move must clear: both rights of the colour of a moved
\* king, and the right of a corner a rook leaves or is captured on.
h1 == Square_new(0, 7)
a8 == Square_new(7, 0)
h8 == Square_new(7, 7)
CornerRight(sq) ==
    CASE sq = a1 -> {WhiteQueenside}
      [] sq = h1 -> {WhiteKingside}
      [] sq = a8 -> {BlackQueenside}
      [] sq = h8 -> {BlackKingside}
      [] OTHER -> {}
RightsLost ==
    (IF LastPiece = King
     THEN IF call.color = White THEN {WhiteKingside, WhiteQueenside}
          ELSE {BlackKingside, BlackQueenside}
     ELSE {})
    \cup (IF LastPiece = Rook THEN CornerRight(LastFrom) ELSE {})
    \cup (IF IsCapture /\ Rook \in KindsAt(prev, LastTo)
          THEN CornerRight(LastTo) ELSE {})

\* C11: an applied king move clears both castling rights of the king's colour,
\* a rook leaving a1/h1/a8/h8 or captured there clears that corner's right,
\* every other move leaves the castling mask unchanged, and a cleared right is
\* never set again.
C11_CastlingRightsUpdated ==
    Applied =>
        /\ \A side \in RightsLost : ~castling_bit(board.castling, side)
        /\ RightsLost = {} => board.castling = prev.castling
        /\ \A side \in CastlingSides :
              ~castling_bit(prev.castling, side) => ~castling_bit(board.castling, side)

\* C17 as stated: en_passant, when present, is on rank 2 if the side to move
\* is White and on rank 5 if the side to move is Black.
C17_EnPassantRankAsStated ==
    (call.ret \in {"init", "Some", "None"} /\ board.en_passant # None) =>
        rank(board.en_passant[1]) = IF board.side_to_move = White THEN 2 ELSE 5

\* C17 amended: after an applied move of a piece of the side to move, an
\* en_passant square left by a pawn's two-rank advance from its home rank is
\* on rank 2 if the side to move is now Black and on rank 5 if it is now White.
HomeRank(color) == IF color = White THEN 1 ELSE 6
C17_EnPassantRank ==
    (/\ Applied
     /\ board.en_passant # None
     /\ call.color = prev.side_to_move
     /\ rank(LastFrom) = HomeRank(call.color)) =>
        rank(board.en_passant[1]) = IF board.side_to_move = Black THEN 2 ELSE 5

\* C17 witness: Black answered a White move with a double push, and the
\* en_passant square is on rank 5 with White to move.
C17_Witness ==
    /\ Applied
    /\ nmoves = 2
    /\ call.color = Black
    /\ prev.side_to_move = Black
    /\ board.side_to_move = White
    /\ board.en_passant = Some(Square_new(5, 1))

\* C20: make_move_mut returns None when the origin square is empty, when the
\* destination holds a piece of the mover's colour, or when promote is Pawn or
\* King, and whenever it returns None every field of the board is as before
\* the call.
RejectedCase ==
    LET m == call.movement[1]
        color == IF OccupiedBy(prev, White, m.from_square) THEN White ELSE Black
    IN \/ KindsAt(prev, m.from_square) = {}
       \/ OccupiedBy(prev, color, m.to_square)
       \/ m.promote \in {Some(Pawn), Some(King)}
C20_RejectedMoveLeavesBoard ==
    call.movement # None =>
        /\ RejectedCase => call.ret = "None"
        /\ call.ret = "None" => board = prev

\* C20 witness: after an applied move, a move of a piece onto a free square
\* was rejected for its promotion to a king.
C20_Witness ==
    /\ nmoves = 2
    /\ call.ret = "None"
    /\ prev # from_start_pos
    /\ prev # promote_test_board
    /\ LastPromote = Some(King)
    /\ KindsAt(prev, LastFrom) # {}
    /\ ~OccupiedBy(prev, call.color, LastTo)
    /\ board = prev

\* C23: in every call of make_move_mut that gets past its checks, the u8
\* subtraction of the double-move test stays in range: to.rank - from.rank is
\* not below 0 for a White mover and from.rank - to.rank is not below 0 for a
\* Black mover, so the call neither aborts nor wraps.
C23_RankArithmeticInRange ==
    (call.movement # None /\ call.ret \in {"Some", "panic"}) =>
        /\ call.ret = "Some"
        /\ call.color = White => rank(LastTo) >= rank(LastFrom)
        /\ call.color = Black => rank(LastFrom) >= rank(LastTo)

\* ------------------------------------------------------------ search claims
Returned == result.kind \in {"depth", "timed"}
FreshDepthSearch == result.kind = "depth" /\ result.entries_before = {}
RootMoves == get_legal_moves(game, result.board)

\* Plain minimax to a fixed depth over the leaf evaluation of alphabeta
RECURSIVE minimax(_, _, _, _)
minimax(g, b, max_depth, depth) ==
    LET moves == get_legal_moves(g, b)
        values == {minimax(g, game_make_move(g, b, moves[i]), max_depth, depth + 1) :
                     i \in 1 .. Len(moves)}
    IN IF depth >= max_depth \/ Len(moves) = 0
       THEN leaf_result(g, b, Len(moves), depth).eval
       ELSE IF g.side_to_move[b] = White
       THEN CHOOSE v \in values : \A w \in values : v >= w
       ELSE CHOOSE v \in values : \A w \in values : v <= w

\* C4: search_depth on a fresh Searcher returns the eval of plain depth-d
\* minimax (White maximising, Black minimising) over the same leaf evaluation,
\* also when a position is reached along several move orders or plies.
C4_AlphaBetaEqualsMinimax ==
    FreshDepthSearch =>
        result.sr.eval = minimax(game, result.board, result.depth, 0)

\* Whether colour side can force checkmate within k plies from b
RECURSIVE forces_mate(_, _, _, _)
forces_mate(g, b, side, k) ==
    LET moves == get_legal_moves(g, b)
    IN IF Len(moves) = 0
       THEN in_check(g, b) /\ g.side_to_move[b] # side
       ELSE IF k = 0 THEN FALSE
       ELSE IF g.side_to_move[b] = side
       THEN \E i \in 1 .. Len(moves) :
              forces_mate(g, game_make_move(g, b, moves[i]), side, k - 1)
       ELSE \A i \in 1 .. Len(moves) :
              forces_mate(g, game_make_move(g, b, moves[i]), side, k - 1)

\* The plies of the shortest forced mate for the side to move, -1 without one
\* within limit plies
mate_distance(g, b, limit) ==
    LET ks == {k \in 0 .. limit : forces_mate(g, b, g.side_to_move[b], k)}
    IN IF ks = {} THEN -1 ELSE CHOOSE k \in ks : \A j \in ks : k <= j

\* C5: when the side to move at the root can force checkmate in k plies and
\* the search depth is at least k, the returned eval is MATE - k with the sign
\* of the mating side.
C5_MateDistanceScore ==
    FreshDepthSearch =>
        LET k == mate_distance(game, result.board, result.depth)
        IN k >= 0 =>
             result.sr.eval
                = (MATE - k) * polarize(game.side_to_move[result.board])

\* C6: get_score(board, n) is -MATE for a checked White and +MATE for a checked
\* Black when n = 0, 0 when n = 0 without check, and the white score minus the
\* black score when n > 0.
C6_GetScoreCases ==
    eval_call.called =>
        LET b == eval_call.board
            n == eval_call.legal_move_count
        IN /\ (n = 0 /\ game.in_check[b] /\ game.side_to_move[b] = White)
                 => eval_call.score = -10000
           /\ (n = 0 /\ game.in_check[b] /\ game.side_to_move[b] = Black)
                 => eval_call.score = 10000
           /\ (n = 0 /\ ~game.in_check[b]) => eval_call.score = 0
           /\ n > 0 => eval_call.score = game.white_score[b] - game.black_score[b]

\* C6 witness: a stalemated position (no move, no check) whose material is
\* unbalanced was scored.
C6_Witness ==
    /\ eval_call.called
    /\ eval_call.legal_move_count = 0
    /\ ~game.in_check[eval_call.board]
    /\ game.white_score[eval_call.board] # game.black_score[eval_call.board]
    /\ eval_call.score = 0

\* C7: every search returns a SearchResult, and when the root has a legal move
\* and the depth is at least 1 its mv is one of the root's legal moves, also
\* when every continuation loses.
C7_SearchReturnsLegalMove ==
    Returned =>
        /\ result.sr.eval \in I16_MIN .. I16_MAX
        /\ result.sr.depth \in 0 .. 65535
        /\ (Len(RootMoves) > 0 /\ result.depth >= 1) =>
              /\ result.sr.mv # None
              /\ result.sr.mv[1] \in SetOf(RootMoves)

\* C7 witness: a search from a root whose side to move is mated by force
\* returned one of its legal moves.
C7_Witness ==
    /\ Returned
    /\ result.depth >= 1
    /\ result.sr.mv # None
    /\ result.sr.mv[1] \in SetOf(RootMoves)
    /\ polarize(game.side_to_move[result.board]) * result.sr.eval <= 1000 - MATE

\* C8 as stated: search_timed runs depths 1, 2, 3, ... in order, reads the clock
\* after each completed iteration, completes at least one, stops at the first
\* iteration after which the elapsed time exceeds the budget (or at the last
\* depth), and returns the result of that iteration with its depth field equal
\* to the iteration's depth.
TimedLoopShape ==
    /\ Len(result.ran) >= 1
    /\ result.ran = [i \in 1 .. Len(result.ran) |-> i]
    /\ Len(result.readings) = Len(result.ran)
    /\ \A i \in 1 .. (Len(result.ran) - 1) :
          ~(result.readings[i] > result.thinking_time)
    /\ \/ result.readings[Len(result.ran)] > result.thinking_time
       \/ Len(result.ran) = MaxIterDepth
    /\ result.depth = Len(result.ran)

C8_TimedSearchAsStated ==
    result.kind = "timed" =>
        /\ TimedLoopShape
        /\ result.sr.depth = Len(result.ran)

\* C8 amended: as above, but the depth field equals the last iteration's depth
\* only when the root has a legal move and the table held no entry for the root
\* of at least that depth when the iteration began; it is 0 for a root without
\* legal moves and at least the iteration's depth otherwise.
C8_TimedSearchIterates ==
    result.kind = "timed" =>
        /\ TimedLoopShape
        /\ (~result.root_hit /\ Len(RootMoves) > 0)
              => result.sr.depth = Len(result.ran)
        /\ (~result.root_hit /\ Len(RootMoves) = 0) => result.sr.depth = 0
        /\ result.root_hit => result.sr.depth >= Len(result.ran)

\* C8 witness: a timed search that ran more than one iteration and returned
\* the last one's result.
C8_Witness ==
    /\ result.kind = "timed"
    /\ Len(result.ran) >= 2
    /\ result.sr.depth = Len(result.ran)
    /\ ~(result.readings[1] > result.thinking_time)

\* C9: when search_timed returns the transposition table is empty, and a call
\* of search_depth removes no entry from it.
C9_TableClearedOnlyByTimed ==
    [][/\ (pc = "timed" /\ pc' = "idle") => DOMAIN searcher'.tp = {}
       /\ result'.kind = "depth" /\ nsearch' = nsearch + 1
             => DOMAIN searcher.tp \subseteq DOMAIN searcher'.tp]_vars

\* C9 witness: a timed search that began with entries left by search_depth has
\* returned and the table is empty.
C9_Witness ==
    /\ result.kind = "timed"
    /\ pc = "idle"
    /\ result.entries_before # {}
    /\ DOMAIN searcher.tp = {}

\* C21: the eval search_depth(board, d) returns does not depend on what the
\* Searcher's transposition table holds from earlier search_depth calls: it
\* is the eval a fresh Searcher returns for the same board and depth.
C21_EvalIndependentOfHistory ==
    result.kind = "depth" =>
        result.sr.eval
           = search_depth(game, Searcher_new, result.board, result.depth).sr.eval

\* C22: every insertion into the transposition table stores a depth of at
\* least 1 (no leaf result), and an insertion for a board the table already
\* holds stores a depth strictly greater than the depth it overwrites, over
\* any sequence of searches.
C22_StoredDepthIncreases ==
    \A e \in searcher.inserts :
        /\ e.new >= 1
        /\ e.old # None => e.new > e.old[1]

\* C22 witness: a second search without a clear in between has overwritten
\* an entry the first one left, with a greater depth.
C22_Witness ==
    /\ result.kind = "depth"
    /\ result.entries_before # {}
    /\ \E e \in searcher.inserts :
          /\ e.board \in result.entries_before
          /\ e.old # None
          /\ e.new > e.old[1]

\* ------------------------------------------------------------ parser claims
\* What makes a string invalid FEN: it is empty, a field is missing, the side
\* to move is neither "w" nor "b", the placement has a letter that is no piece,
\* more than 8 ranks, or more than 8 files in a rank.
FileCount(rank_str) ==
    LET width(ch) == IF is_numeric(ch) THEN to_digit(ch)[1] ELSE 1
        RECURSIVE total(_)
        total(chars) == IF chars = << >> THEN 0
                        ELSE width(Head(chars)) + total(Tail(chars))
    IN total(rank_str)
InvalidFen(str) ==
    LET fields == split(str, " ")
        ranks == split(fields[1], "/")
    IN \/ str = << >>
       \/ Len(fields) < 4
       \/ fields[2] \notin {<<"w">>, <<"b">>}
       \/ \E ch \in SetOf(fields[1]) :
             ~is_numeric(ch) /\ ch # "/" /\ from_char(to_ascii_lowercase(ch)) = None
       \/ Len(ranks) > 8
       \/ \E i \in 1 .. Len(ranks) : FileCount(ranks[i]) > 8

\* C12: Board::from_fen returns None for every input that is not valid FEN,
\* and neither returns a board nor aborts on it.
C12_InvalidFenGivesNone ==
    (parsed.kind = "board" /\ InvalidFen(parsed.input)) => parsed.ret = "None"

\* C13: for every Movement m with squares in 0..63 and promote None, Knight,
\* Bishop, Rook or Queen, Movement::from_notation(m.to_notation()) = Some(m).
C13_NotationRoundTrip ==
    (/\ parsed.kind = "notation"
     /\ parsed.input.promote \in {None, Some(Knight), Some(Bishop), Some(Rook), Some(Queen)})
        => parsed.output = Some(parsed.input)

\* C13 witness: a promotion to a knight, written with five characters, was
\* parsed back to the same Movement.
C13_Witness ==
    /\ parsed.kind = "notation"
    /\ parsed.input.promote = Some(Knight)
    /\ Len(parsed.lan) = 5
    /\ parsed.output = Some(parsed.input)

\* C14: parse of "position startpos" or "position fen <FEN>" without a moves
\* clause yields a Position message with that position's board and an empty
\* move list, and with a moves clause the listed moves in order.
C14_PositionMovesOptional ==
    (parsed.kind = "message" /\ parsed.form.cmd = "position") =>
        parsed.output = Some(ParseSome([tag |-> "Position",
                                        board |-> parsed.form.base.board,
                                        moves |-> parsed.form.list.moves]))

\* C15: parse of a go command that carries a budget option yields a Go message
\* holding the value of every option given, with or without the word ponder
\* or infinite and whatever the order of the words.
C15_GoCarriesOptions ==
    (/\ parsed.kind = "message"
     /\ parsed.form.cmd = "go"
     /\ \E i \in 1 .. Len(parsed.form.items) : parsed.form.items[i].field # "") =>
        /\ parsed.output[1].ret = "Some"
        /\ parsed.output[1].msg.tag = "Go"
        /\ \A i \in 1 .. Len(parsed.form.items) :
              parsed.form.items[i].field # "" =>
                 parsed.output[1].msg.go.option[parsed.form.items[i].field]
                    = Some(parsed.form.items[i].value)

\* ------------------------------------------------------------ table claims
\* The knights of a colour, and the squares an L-shaped jump from a square
\* leads to on the board: two ranks and one file away, or one rank and two
\* files.
Abs(x) == IF x < 0 THEN -x ELSE x
KnightsOf(b, color) == b.pieces[Knight] \cap b.color_combined[color]
LDestinations(sq) ==
    {t \in Squares : {Abs(rank(t) - rank(sq)), Abs(file(t) - file(sq))} = {1, 2}}
Appended == SubSeq(lookup.out, Len(lookup.moves) + 1, Len(lookup.out))

\* C16: a lookup in an attack table before the table was generated, a sliding
\* lookup through lookup_hash or a knight lookup through knight_moves, aborts
\* and returns no bitboard, whenever the generations and the lookup happen.
C16_LookupBeforeGenerationAborts ==
    /\ (lookup.kind = "sliding_done" /\ ~lookup.generated) => lookup.ret = "panic"
    /\ (/\ lookup.kind = "knights_done"
        /\ ~lookup.generated
        /\ KnightsOf(board, lookup.color) # {}) => lookup.ret = "panic"

\* C19: after gen_knight_moves, get_knight_moves appends to the moves exactly
\* one Movement without promotion for every knight of the colour and every
\* L-shaped destination on the board that no piece of the colour occupies,
\* none twice; for White in the starting position these are b1a3, b1c3, g1f3
\* and g1h3.
C19_KnightMoves ==
    (lookup.kind = "knights_done" /\ lookup.generated) =>
        /\ lookup.ret = "Ok"
        /\ SubSeq(lookup.out, 1, Len(lookup.moves)) = lookup.moves
        /\ SetOf(Appended) =
              {Movement_new(from_sq, to_sq, None) :
                  from_sq \in KnightsOf(board, lookup.color),
                  to_sq \in Squares} \cap
              {m \in [from_square : Squares, to_square : Squares, promote : {None}] :
                  /\ m.to_square \in LDestinations(m.from_square)
                  /\ m.to_square \notin board.color_combined[lookup.color]}
        /\ Cardinality(SetOf(Appended)) = Len(Appended)
        /\ (board = from_start_pos /\ lookup.color = White) =>
              SetOf(Appended) = {Movement_new(1, 16, None), Movement_new(1, 18, None),
                                 Movement_new(6, 21, None), Movement_new(6, 23, None)}

\* C19 witness: after gen_knight_moves the moves of the two White knights on
\* a2 and h2 were appended to a list that held a move, three for each knight.
C19_Witness ==
    /\ lookup.kind = "knights_done"
    /\ lookup.generated
    /\ board = two_knights_test_board
    /\ lookup.color = White
    /\ Len(lookup.moves) = 1
    /\ Len(lookup.out) = 7

\* The squares a sliding piece reaches from a square: those on one of its
\* lines with no occupied square strictly between.
OnLine(sq, t, piece) ==
    /\ t # sq
    /\ IF piece = Rook THEN rank(t) = rank(sq) \/ file(t) = file(sq)
       ELSE Abs(rank(t) - rank(sq)) = Abs(file(t) - file(sq))
StrictlyBetween(sq, t, piece) ==
    {u \in Squares :
        /\ OnLine(sq, u, piece) /\ OnLine(u, t, piece) /\ OnLine(sq, t, piece)
        /\ Abs(rank(u) - rank(sq)) + Abs(rank(t) - rank(u)) = Abs(rank(t) - rank(sq))
        /\ Abs(file(u) - file(sq)) + Abs(file(t) - file(u)) = Abs(file(t) - file(sq))}
Reachable(sq, piece, occupancy) ==
    {t \in Squares : /\ OnLine(sq, t, piece)
                     /\ StrictlyBetween(sq, t, piece) \cap occupancy = {}}
\* The squares of a piece's lines without the source and the last square of
\* each line
InnerSquares(sq, piece) ==
    {t \in Squares : /\ OnLine(sq, t, piece)
                     /\ \E u \in Squares : t \in StrictlyBetween(sq, u, piece)}

\* C18: after gen_all_magics the sliding lookup of a Rook or a Bishop returns
\* exactly the squares along the piece's rays up to and including the first
\* occupied square in each direction, which depends only on the occupancy
\* within the square's occupancy mask; the Queen's lookup is the union of the
\* Rook's and the Bishop's.
C18_SlidingLookup ==
    (lookup.kind = "sliding_done" /\ lookup.generated /\ lookup.piece \in Sliders) =>
        /\ lookup.ret = "Ok"
        /\ lookup.piece \in {Rook, Bishop} =>
              /\ lookup.out = Reachable(lookup.sq, lookup.piece, lookup.occupancy)
              /\ lookup.out = Reachable(lookup.sq, lookup.piece,
                                        lookup.occupancy
                                          \cap InnerSquares(lookup.sq, lookup.piece))
        /\ lookup.piece = Queen =>
              lookup.out = Reachable(lookup.sq, Rook, lookup.occupancy)
                             \cup Reachable(lookup.sq, Bishop, lookup.occupancy)

\* C18 witness: after gen_all_magics the lookup of the rook on d5 with d3 and
\* h5 occupied, among others off its rays, reached f5, h5, d3, b5, d6, d7 and
\* d8 and none of d2, d1 and g3.
C18_Witness ==
    /\ lookup.kind = "sliding_done"
    /\ lookup.generated
    /\ lookup.sq = d5
    /\ lookup.piece = Rook
    /\ {19, 39, 13} \subseteq lookup.occupancy
    /\ {37, 39, 19, 33, 43, 51, 59} \subseteq lookup.out
    /\ lookup.out \cap {11, 3, 22} = {}

====
